---- MODULE Spec2Model ----
(***************************************************************************)
(* Verification model of Python-Helper.                                    *)
(*                                                                         *)
(* Part 1: scripts/automated-tasks/run_pendingReports_task.py, the         *)
(*         pending-reports alert job and its state file.  One invocation   *)
(*         of main() is a process; every call that leaves the process      *)
(*         (database, state file, SMTP) is one step of it.                 *)
(* Part 2: python_helpers/utilities retry_operation.                       *)
(***************************************************************************)
EXTENDS Integers, Sequences, FiniteSets, TLC

VARIABLES
    \* ---- run_pendingReports_task: the file system
    file_exists,    \* os.path.exists(STATE_FILE)
    file_content,   \* the characters of STATE_FILE (<<>> when absent or empty)
    \* ---- run_pendingReports_task: one invocation of main() per process
    pc,             \* position of each invocation inside main()
    total_count,    \* main's local total_count
    last_state,     \* main's local last_state (characters)
    write_arg,      \* the argument of the running write_alert_state call
    acts,           \* history: the emails attempted and write_alert_state calls of the run
    fails,          \* history: the I/O operations that failed in the run
    read_saw,       \* history: what read_last_alert_state met ("none", "absent", "ok", "error")
    before,         \* history: the state file when the run started
    run_no,         \* history: ordinal of the run (1 = first-ever invocation)
    query_no,       \* history: ordinal of the run's database query (0 = none yet)
    \* ---- run_pendingReports_task: history across invocations
    started,        \* number of invocations started so far
    events,         \* "EXCEED" per run that saw count > threshold, "RECOVERY" per RECOVERY email
    io_failed,      \* some state-file read or write has failed so far
    queries,        \* number of database queries made so far
    last_writer,    \* run_no of the invocation whose write reached the file last (0 = none)
    unsent,         \* history: "failed" after a RECOVERY email that was not sent, "written"
                    \* once that run has written NORMAL, "none" after any other email
    \* ---- retry_operation
    r_pc,           \* "loop", "sleep", "returned", "raised"
    max_attempts,   \* argument
    delay,          \* argument, multiplied by backoff after each sleep
    delay_arg,      \* history: the delay argument as it was passed
    backoff,        \* argument
    attempt,        \* loop variable of range(max_attempts)
    calls,          \* history: number of calls of func
    outcomes,       \* history: outcome of each call of func, in order
    last_exception, \* local last_exception ("None" before the first failure)
    result,         \* the returned value ("None" when nothing was returned by func)
    raised,         \* the exception that left retry_operation ("None" when none)
    sleeps,         \* history: the argument of each time.sleep call
    \* ---- utilities: one call of clean_filename, chunk_list, remove_duplicates,
    \*      validate_email or data_processing.clean_data
    u_pc,           \* "call", "applied", "reapplied"
    u_op,           \* the function called
    u_in,           \* its first argument (a string or a list)
    u_arg,          \* its second argument (replacement, chunk_size, preserve_order)
    u_out,          \* what the call gave: [raised, v]
    u_again,        \* what the function gives when applied to its own result
    \* ---- automation: one call of schedule_task
    s_pc,           \* "loop", "sleep", "sleep_err", "returned", "raised"
    s_max_runs,     \* the max_runs argument: [none, n]
    runs,           \* the local runs
    s_calls,        \* history: how many times func was invoked
    s_events,       \* history: "ok", "error", "interrupt", "exit" (func), "sleep",
                    \* "sleep_interrupted" (time.sleep), in order
    s_raised,       \* the exception schedule_task propagated, "None" if none
    \* ---- file_ops: a small directory tree and the calls made on it
    fs,             \* path -> [kind, text, mtime, locked]
    call,           \* the last call: function, arguments, result, fs before it
    prev,           \* the call before the last one
    \* ---- automation: one call of batch_commands
    b_pc,           \* "loop", "returned", "raised"
    commands,       \* the commands argument
    continue_on_error, \* the continue_on_error argument
    b_next,         \* index in commands of the command the for loop takes next
    results,        \* the local results
    b_ran,          \* history: each subprocess started, [command, outcome], in order
    b_raised,       \* the exception batch_commands propagated, "None" if none
    \* ---- run_DbCheck_sendToAPI_task: one invocation of main()
    j_pc,           \* "connect", "query", "post", "report", "done"
    records,        \* main's local records: the assessment links of the valid rows
    j_i,            \* process_all_records: index of the record the loop takes next
    j_results,      \* the results dict: [total, successful, failed]
    posts,          \* history: each requests.post made, [link, response], in order
    smtp_up,        \* the SMTP server accepts the message
    j_email,        \* history: what send_email_report returned ("None" before it)
    j_fails         \* history: the steps that failed in the run

alert_vars == <<file_exists, file_content, pc, total_count, last_state, write_arg,
                acts, fails, read_saw, before, run_no, query_no, started, events,
                io_failed, queries, last_writer, unsent>>

retry_vars == <<r_pc, max_attempts, delay, delay_arg, backoff, attempt, calls, outcomes,
                last_exception, result, raised, sleeps>>

util_vars == <<u_pc, u_op, u_in, u_arg, u_out, u_again>>

sched_vars == <<s_pc, s_max_runs, runs, s_calls, s_events, s_raised>>

file_vars == <<fs, call, prev>>

batch_vars == <<b_pc, commands, continue_on_error, b_next, results, b_ran, b_raised>>

job_vars == <<j_pc, records, j_i, j_results, posts, smtp_up, j_email, j_fails>>

vars == <<alert_vars, retry_vars, util_vars, sched_vars, file_vars, batch_vars, job_vars>>

\* what the steps of one part leave alone
not_alert_vars == <<retry_vars, util_vars, sched_vars, file_vars, batch_vars, job_vars>>
not_retry_vars == <<alert_vars, util_vars, sched_vars, file_vars, batch_vars, job_vars>>
not_util_vars == <<alert_vars, retry_vars, sched_vars, file_vars, batch_vars, job_vars>>
not_sched_vars == <<alert_vars, retry_vars, util_vars, file_vars, batch_vars, job_vars>>
not_file_vars == <<alert_vars, retry_vars, util_vars, sched_vars, batch_vars, job_vars>>
not_batch_vars == <<alert_vars, retry_vars, util_vars, sched_vars, file_vars, job_vars>>
not_job_vars == <<alert_vars, retry_vars, util_vars, sched_vars, file_vars, batch_vars>>

-----------------------------------------------------------------------------
(* Bounds of the model *)

\* invocations of main() in one behaviour
MaxRuns == 3

\* largest max_attempts given to retry_operation
MaxAttempts == 3

\* longest string and longest list given to the utilities
MaxLen == 3

\* largest finite max_runs given to schedule_task
MaxRunsArg == 2

\* invocations of func followed in one call of schedule_task
MaxCalls == 4

\* calls of the file helpers followed one after the other
MaxOps == 2

\* most keys of a dict given to write_json
MaxKeys == 2

\* longest list of commands given to batch_commands
MaxCommands == 3

\* longest list of dictionaries given to clean_data
MaxRows == 2

\* most valid records the query of run_DbCheck_sendToAPI_task returns
MaxRecords == 3

\* longest text before the '@' of an address given to validate_email; the text
\* after it is at most one character longer
MaxLocal == 3

-----------------------------------------------------------------------------
(* run_pendingReports_task.py *)

\* ALERT_THRESHOLD = int(os.getenv('ALERT_THRESHOLD', '50'))
ALERT_THRESHOLD == 50

\* the two overlapping invocations a second cron instance can produce
Procs == {1, 2}

\* totals the query can produce: none pending, exactly the threshold, above it
TotalCounts == {0, ALERT_THRESHOLD, ALERT_THRESHOLD + 1}

\* the characters of the two Python string literals main() passes around
Chars(s) ==
    CASE s = "WARNING" -> <<"W", "A", "R", "N", "I", "N", "G">>
      [] s = "NORMAL"  -> <<"N", "O", "R", "M", "A", "L">>

Whitespace == {" ", "\t", "\n", "\r"}

RECURSIVE LStrip(_)
LStrip(s) ==
    IF s # <<>> /\ Head(s) \in Whitespace THEN LStrip(Tail(s)) ELSE s

RECURSIVE RStrip(_)
RStrip(s) ==
    IF s # <<>> /\ s[Len(s)] \in Whitespace
    THEN RStrip(SubSeq(s, 1, Len(s) - 1))
    ELSE s

\* str.strip()
Strip(s) == RStrip(LStrip(s))

\* a write of the characters new at offset 0 of a file holding old
WriteAtStart(new, old) ==
    [i \in 1..(IF Len(new) > Len(old) THEN Len(new) ELSE Len(old)) |->
        IF i <= Len(new) THEN new[i] ELSE old[i]]

\* variant: an invocation holds the state file from its read to the end of its write
FileAccessLocked(p) ==
    \A q \in Procs \ {p} : pc[q] \notin {"alert", "open", "flush"}

\* read_last_alert_state and write_alert_state take no lock on STATE_FILE: nothing
\* another invocation does holds back an access of invocation p to the file
FileAccessAllowed(p) == TRUE

\* variant: the recovery branch persists 'WARNING' too
NextStateSticky(alert) == "WARNING"

\* the state main() persists after an alert: 'WARNING' at line 355, 'NORMAL' at line 364
NextState(alert) == IF alert = "WARNING" THEN "WARNING" ELSE "NORMAL"

\* the state file as one value
FileNow == [exists |-> file_exists, content |-> file_content]

\* variant: a missing or unreadable file counts as 'WARNING'
ReadResultDefaultWarning(ok) ==
    IF ~file_exists THEN Chars("WARNING")
    ELSE IF ok THEN Strip(file_content)
    ELSE Chars("WARNING")

\* read_last_alert_state(): ok says whether open/read went through
ReadResult(ok) ==
    IF ~file_exists THEN Chars("NORMAL")
    ELSE IF ok THEN Strip(file_content)
    ELSE Chars("NORMAL")

ReadSaw(ok) ==
    IF ~file_exists THEN "absent" ELSE IF ok THEN "ok" ELSE "error"

AlertInit ==
    /\ file_exists = FALSE
    /\ file_content = <<>>
    /\ pc = [p \in Procs |-> "idle"]
    /\ total_count = [p \in Procs |-> 0]
    /\ last_state = [p \in Procs |-> <<>>]
    /\ write_arg = [p \in Procs |-> "None"]
    /\ acts = [p \in Procs |-> <<>>]
    /\ fails = [p \in Procs |-> {}]
    /\ read_saw = [p \in Procs |-> "none"]
    /\ before = [p \in Procs |-> [exists |-> FALSE, content |-> <<>>]]
    /\ run_no = [p \in Procs |-> 0]
    /\ query_no = [p \in Procs |-> 0]
    /\ started = 0
    /\ events = <<>>
    /\ io_failed = FALSE
    /\ queries = 0
    /\ last_writer = 0
    /\ unsent = "none"

\* variant: main() goes on to the query without a connection
AfterConnectGoesOn(ok) == "query"

\* main() lines 330-333: return when connect_to_database() gave None
AfterConnect(ok) == IF ok THEN "query" ELSE "done"

\* main() lines 328-333: connect_to_database(); return when it gave None
ConnectToDatabase(p) ==
    /\ pc[p] = "idle"
    /\ started < MaxRuns
    /\ started' = started + 1
    /\ run_no' = [run_no EXCEPT ![p] = started + 1]
    /\ before' = [before EXCEPT ![p] = FileNow]
    /\ total_count' = [total_count EXCEPT ![p] = 0]
    /\ last_state' = [last_state EXCEPT ![p] = <<>>]
    /\ write_arg' = [write_arg EXCEPT ![p] = "None"]
    /\ acts' = [acts EXCEPT ![p] = <<>>]
    /\ read_saw' = [read_saw EXCEPT ![p] = "none"]
    /\ \E ok \in BOOLEAN :
         /\ pc' = [pc EXCEPT ![p] = AfterConnect(ok)]
         /\ fails' = [fails EXCEPT ![p] = IF ok THEN {} ELSE {"connect"}]
    /\ UNCHANGED <<file_exists, file_content, query_no, events, io_failed, queries,
                   last_writer, unsent>>
    /\ UNCHANGED not_alert_vars

\* main() lines 336-337: get_pending_records_from_database(); a failed query gives [], 0
GetPendingRecords(p) ==
    /\ pc[p] = "query"
    /\ \/ \E n \in TotalCounts :
            /\ total_count' = [total_count EXCEPT ![p] = n]
            /\ fails' = fails
       \/ /\ total_count' = [total_count EXCEPT ![p] = 0]
          /\ fails' = [fails EXCEPT ![p] = @ \cup {"query"}]
    /\ queries' = queries + 1
    /\ query_no' = [query_no EXCEPT ![p] = queries + 1]
    /\ pc' = [pc EXCEPT ![p] = "read"]
    /\ UNCHANGED <<file_exists, file_content, last_state, write_arg, acts, read_saw,
                   before, run_no, started, events, io_failed, last_writer, unsent>>
    /\ UNCHANGED not_alert_vars

\* main() line 343: last_state = read_last_alert_state()
ReadLastAlertState(p) ==
    /\ pc[p] = "read"
    /\ FileAccessAllowed(p)
    /\ \E ok \in BOOLEAN :
         /\ last_state' = [last_state EXCEPT ![p] = ReadResult(ok)]
         /\ read_saw' = [read_saw EXCEPT ![p] = ReadSaw(ok)]
         /\ fails' = [fails EXCEPT ![p] =
                        IF ReadSaw(ok) = "error" THEN @ \cup {"read"} ELSE @]
         /\ io_failed' = (io_failed \/ ReadSaw(ok) = "error")
    /\ pc' = [pc EXCEPT ![p] = "alert"]
    /\ UNCHANGED <<file_exists, file_content, total_count, write_arg, acts,
                   before, run_no, query_no, started, events, queries, last_writer, unsent>>
    /\ UNCHANGED not_alert_vars

\* variant: a WARNING is not repeated while the last state is already 'WARNING'
BranchWarnOnce(count, last) ==
    IF count > ALERT_THRESHOLD
    THEN (IF last = Chars("WARNING") THEN "NONE" ELSE "WARNING")
    ELSE IF count <= ALERT_THRESHOLD /\ count >= 0
         THEN (IF last = Chars("WARNING") THEN "RECOVERY" ELSE "NONE")
         ELSE "NONE"

\* variant: the recovery branch needs a count strictly below the threshold
BranchStrict(count, last) ==
    IF count > ALERT_THRESHOLD THEN "WARNING"
    ELSE IF count < ALERT_THRESHOLD /\ count >= 0
         THEN (IF last = Chars("WARNING") THEN "RECOVERY" ELSE "NONE")
         ELSE "NONE"

\* variant: the recovery branch does not look at the last state
BranchIgnoresLast(count, last) ==
    IF count > ALERT_THRESHOLD THEN "WARNING"
    ELSE IF count <= ALERT_THRESHOLD /\ count >= 0
         THEN "RECOVERY"
         ELSE "NONE"

\* the branch main() takes at lines 349-366
Branch(count, last) ==
    IF count > ALERT_THRESHOLD THEN "WARNING"
    ELSE IF count <= ALERT_THRESHOLD /\ count >= 0
         THEN (IF last = Chars("WARNING") THEN "RECOVERY" ELSE "NONE")
         ELSE "NONE"

\* variant: write_alert_state is called only after an email that was sent
AfterEmailChecked(sent) == IF sent THEN "open" ELSE "done"

\* main() lines 354-355 and 363-364: the value of send_email_report is dropped and
\* write_alert_state comes next
AfterEmail(sent) == "open"

\* main() lines 349-354: send_email_report(records, total_count, "WARNING"),
\* whose result is dropped; write_alert_state('WARNING') comes next
SendWarning(p) ==
    /\ pc[p] = "alert"
    /\ Branch(total_count[p], last_state[p]) = "WARNING"
    /\ acts' = [acts EXCEPT ![p] = Append(@, [op |-> "email", arg |-> "WARNING"])]
    /\ events' = Append(events, "EXCEED")
    /\ \E sent \in BOOLEAN :
         /\ fails' = [fails EXCEPT ![p] = IF sent THEN @ ELSE @ \cup {"email"}]
         /\ pc' = [pc EXCEPT ![p] = AfterEmail(sent)]
    /\ unsent' = "none"
    /\ write_arg' = [write_arg EXCEPT ![p] = NextState("WARNING")]
    /\ UNCHANGED <<file_exists, file_content, total_count, last_state, read_saw,
                   before, run_no, query_no, started, io_failed, queries, last_writer>>
    /\ UNCHANGED not_alert_vars

\* main() lines 357-363: send_email_report(records, total_count, "RECOVERY"),
\* whose result is dropped; write_alert_state('NORMAL') comes next
SendRecovery(p) ==
    /\ pc[p] = "alert"
    /\ Branch(total_count[p], last_state[p]) = "RECOVERY"
    /\ acts' = [acts EXCEPT ![p] = Append(@, [op |-> "email", arg |-> "RECOVERY"])]
    /\ events' = Append(events, "RECOVERY")
    /\ \E sent \in BOOLEAN :
         /\ fails' = [fails EXCEPT ![p] = IF sent THEN @ ELSE @ \cup {"email"}]
         /\ pc' = [pc EXCEPT ![p] = AfterEmail(sent)]
         /\ unsent' = IF sent THEN "none" ELSE "failed"
    /\ write_arg' = [write_arg EXCEPT ![p] = NextState("RECOVERY")]
    /\ UNCHANGED <<file_exists, file_content, total_count, last_state, read_saw,
                   before, run_no, query_no, started, io_failed, queries, last_writer>>
    /\ UNCHANGED not_alert_vars

\* main() lines 365-366: nothing to report
NoAlert(p) ==
    /\ pc[p] = "alert"
    /\ Branch(total_count[p], last_state[p]) = "NONE"
    /\ pc' = [pc EXCEPT ![p] = "done"]
    /\ UNCHANGED <<file_exists, file_content, total_count, last_state, write_arg, acts,
                   fails, read_saw, before, run_no, query_no, started, events,
                   io_failed, queries, last_writer, unsent>>
    /\ UNCHANGED not_alert_vars

\* write_alert_state line 276: open(STATE_FILE, 'w') creates or truncates the file;
\* when it raises, the file is as it was and the except clause ends the call
OpenStateFile(p) ==
    /\ pc[p] = "open"
    /\ FileAccessAllowed(p)
    /\ acts' = [acts EXCEPT ![p] = Append(@, [op |-> "write", arg |-> write_arg[p]])]
    /\ \/ /\ file_exists' = TRUE
          /\ file_content' = <<>>
          /\ pc' = [pc EXCEPT ![p] = "flush"]
          /\ UNCHANGED <<fails, io_failed>>
       \/ /\ fails' = [fails EXCEPT ![p] = @ \cup {"write"}]
          /\ io_failed' = TRUE
          /\ pc' = [pc EXCEPT ![p] = "done"]
          /\ UNCHANGED <<file_exists, file_content>>
    /\ UNCHANGED <<total_count, last_state, write_arg, read_saw, before, run_no,
                   query_no, started, events, queries, last_writer, unsent>>
    /\ UNCHANGED not_alert_vars

\* write_alert_state lines 276-277: f.write(state) reaches the file when the with
\* block closes it, at the start of the file; when that raises nothing is written
FlushStateFile(p) ==
    /\ pc[p] = "flush"
    /\ FileAccessAllowed(p)
    /\ \/ /\ file_content' = WriteAtStart(Chars(write_arg[p]), file_content)
          /\ last_writer' = run_no[p]
          /\ unsent' = IF unsent = "failed" /\ write_arg[p] = "NORMAL" /\ "email" \in fails[p]
                       THEN "written"
                       ELSE unsent
          /\ UNCHANGED <<fails, io_failed>>
       \/ /\ fails' = [fails EXCEPT ![p] = @ \cup {"write"}]
          /\ io_failed' = TRUE
          /\ UNCHANGED <<file_content, last_writer, unsent>>
    /\ pc' = [pc EXCEPT ![p] = "done"]
    /\ UNCHANGED <<file_exists, total_count, last_state, write_arg, acts, read_saw,
                   before, run_no, query_no, started, events, queries>>
    /\ UNCHANGED not_alert_vars

\* main() returns; the process ends
Return(p) ==
    /\ pc[p] = "done"
    /\ pc' = [pc EXCEPT ![p] = "idle"]
    /\ total_count' = [total_count EXCEPT ![p] = 0]
    /\ last_state' = [last_state EXCEPT ![p] = <<>>]
    /\ write_arg' = [write_arg EXCEPT ![p] = "None"]
    /\ acts' = [acts EXCEPT ![p] = <<>>]
    /\ fails' = [fails EXCEPT ![p] = {}]
    /\ read_saw' = [read_saw EXCEPT ![p] = "none"]
    /\ before' = [before EXCEPT ![p] = [exists |-> FALSE, content |-> <<>>]]
    /\ run_no' = [run_no EXCEPT ![p] = 0]
    /\ query_no' = [query_no EXCEPT ![p] = 0]
    /\ UNCHANGED <<file_exists, file_content, started, events, io_failed, queries,
                   last_writer, unsent>>
    /\ UNCHANGED not_alert_vars

\* no other invocation is running (one cron instance at a time)
NoOverlap(p) == \A q \in Procs \ {p} : pc[q] = "idle"

AlertNext ==
    \E p \in Procs :
        \/ ConnectToDatabase(p)
        \/ GetPendingRecords(p)
        \/ ReadLastAlertState(p)
        \/ SendWarning(p)
        \/ SendRecovery(p)
        \/ NoAlert(p)
        \/ OpenStateFile(p)
        \/ FlushStateFile(p)
        \/ Return(p)

\* the same steps when cron starts an invocation only after the previous one ended
AlertNextSeq ==
    \E p \in Procs :
        \/ NoOverlap(p) /\ ConnectToDatabase(p)
        \/ GetPendingRecords(p)
        \/ ReadLastAlertState(p)
        \/ SendWarning(p)
        \/ SendRecovery(p)
        \/ NoAlert(p)
        \/ OpenStateFile(p)
        \/ FlushStateFile(p)
        \/ Return(p)

-----------------------------------------------------------------------------
(* python_helpers/utilities/__init__.py: retry_operation *)

\* what func() can return, and the exceptions (subclasses of Exception) it can raise
Values == {"success", "other"}
Exceptions == {"Temporary failure", "Always fails"}

\* the delay and backoff arguments tried
Delays == {1, 2}
Backoffs == {1, 2, 3}

RetryInit ==
    /\ r_pc = "loop"
    /\ max_attempts \in 0..MaxAttempts
    /\ delay \in Delays
    /\ delay_arg = delay
    /\ backoff \in Backoffs
    /\ attempt = 0
    /\ calls = 0
    /\ outcomes = <<>>
    /\ last_exception = "None"
    /\ result = "None"
    /\ raised = "None"
    /\ sleeps = <<>>

\* lines 236-238: the loop body is entered and func() returns; its value is returned
CallReturns ==
    /\ r_pc = "loop"
    /\ attempt < max_attempts
    /\ \E v \in Values :
         /\ outcomes' = Append(outcomes, [kind |-> "return", what |-> v])
         /\ result' = v
    /\ calls' = calls + 1
    /\ r_pc' = "returned"
    /\ UNCHANGED <<max_attempts, delay, delay_arg, backoff, attempt, last_exception,
                   raised, sleeps>>
    /\ UNCHANGED not_retry_vars

\* variant: the last allowed attempt is never made
AfterFailureEarly(att, max) == IF att < max - 2 THEN "sleep" ELSE "raised"

\* variant: the last failure is swallowed instead of raised
AfterFailureSwallow(att, max) == IF att < max - 1 THEN "sleep" ELSE "returned"

\* what follows a failed call at lines 242-246: sleep and go on, or give up
AfterFailure(att, max) == IF att < max - 1 THEN "sleep" ELSE "raised"

\* lines 236-246: the loop body is entered and func() raises
CallRaises ==
    /\ r_pc = "loop"
    /\ attempt < max_attempts
    /\ \E e \in Exceptions :
         /\ outcomes' = Append(outcomes, [kind |-> "raise", what |-> e])
         /\ last_exception' = e
         /\ r_pc' = AfterFailure(attempt, max_attempts)
         /\ raised' = IF AfterFailure(attempt, max_attempts) = "raised"
                      THEN last_exception'
                      ELSE raised
    /\ calls' = calls + 1
    /\ UNCHANGED <<max_attempts, delay, delay_arg, backoff, attempt, result, sleeps>>
    /\ UNCHANGED not_retry_vars

\* variant: the delay grows by addition
NextDelayLinear(d, b) == d + b

\* line 244: delay *= backoff
NextDelay(d, b) == d * b

\* lines 243-244: time.sleep(delay); delay *= backoff; then the next iteration
Sleep ==
    /\ r_pc = "sleep"
    /\ sleeps' = Append(sleeps, delay)
    /\ delay' = NextDelay(delay, backoff)
    /\ attempt' = attempt + 1
    /\ r_pc' = "loop"
    /\ UNCHANGED <<max_attempts, delay_arg, backoff, calls, outcomes, last_exception,
                   result, raised>>
    /\ UNCHANGED not_retry_vars

\* line 236: range(max_attempts) is exhausted (only when max_attempts <= 0) and the
\* function falls off its end, returning None
LoopExhausted ==
    /\ r_pc = "loop"
    /\ attempt >= max_attempts
    /\ r_pc' = "returned"
    /\ UNCHANGED <<max_attempts, delay, delay_arg, backoff, attempt, calls, outcomes,
                   last_exception, result, raised, sleeps>>
    /\ UNCHANGED not_retry_vars

RetryNext ==
    \/ CallReturns
    \/ CallRaises
    \/ Sleep
    \/ LoopExhausted

-----------------------------------------------------------------------------
(* python_helpers/utilities/__init__.py: clean_filename, chunk_list, remove_duplicates *)

\* the characters of invalid_chars = r'[<>:"/\\|?*]'
InvalidChars == {"<", ">", ":", "\"", "/", "\\", "|", "?", "*"}

\* characters file names are built from here: a letter, the two stripped
\* characters and two of the invalid ones
NameChars == {"a", ".", " ", "<", "*"}

\* replacement strings tried; the last one is itself invalid
Replacements == {<<>>, <<"_">>, <<".">>, <<"_", " ">>, <<"*">>}

UnnamedFile == <<"u", "n", "n", "a", "m", "e", "d", "_", "f", "i", "l", "e">>

SeqsUpTo(S, n) == UNION {[1..k -> S] : k \in 0..n}

\* re.sub(invalid_chars, replacement, filename), for a replacement without backslash
RECURSIVE ReSub(_, _)
ReSub(filename, replacement) ==
    IF filename = <<>> THEN <<>>
    ELSE (IF Head(filename) \in InvalidChars THEN replacement ELSE <<Head(filename)>>)
         \o ReSub(Tail(filename), replacement)

RECURSIVE LStripChars(_, _)
LStripChars(s, chars) ==
    IF s # <<>> /\ Head(s) \in chars THEN LStripChars(Tail(s), chars) ELSE s

RECURSIVE RStripChars(_, _)
RStripChars(s, chars) ==
    IF s # <<>> /\ s[Len(s)] \in chars
    THEN RStripChars(SubSeq(s, 1, Len(s) - 1), chars)
    ELSE s

\* variant: only the end of the name is stripped
StripDotsAndSpacesRight(s) == RStripChars(s, {".", " "})

\* cleaned.strip('. ')
StripDotsAndSpaces(s) == RStripChars(LStripChars(s, {".", " "}), {".", " "})

\* clean_filename(filename, replacement)
CleanFilename(filename, replacement) ==
    LET cleaned == StripDotsAndSpaces(ReSub(filename, replacement))
    IN  IF cleaned = <<>> THEN UnnamedFile ELSE cleaned

\* list elements
Elems == {1, 2, 3}

\* chunk sizes tried: 0 makes range() raise ValueError, -1 gives an empty range
ChunkSizes == (-1)..(MaxLen + 1)

\* variant: a last chunk shorter than chunk_size is left out
RECURSIVE RangeFullOnly(_, _, _)
RangeFullOnly(from, to, step) ==
    IF from + step > to THEN <<>> ELSE <<from>> \o RangeFullOnly(from + step, to, step)

\* list(range(from, to, step)) for step > 0
RECURSIVE Range(_, _, _)
Range(from, to, step) ==
    IF from >= to THEN <<>> ELSE <<from>> \o Range(from + step, to, step)

\* lst[i:j] for 0 <= i <= j
Slice(lst, i, j) == SubSeq(lst, i + 1, IF j < Len(lst) THEN j ELSE Len(lst))

\* chunk_list(lst, chunk_size)
ChunkList(lst, chunk_size) ==
    IF chunk_size = 0 THEN [raised |-> TRUE, v |-> <<>>]
    ELSE IF chunk_size < 0 THEN [raised |-> FALSE, v |-> <<>>]
    ELSE LET starts == Range(0, Len(lst), chunk_size)
         IN  [raised |-> FALSE,
              v |-> [k \in 1..Len(starts) |->
                        Slice(lst, starts[k], starts[k] + chunk_size)]]

RECURSIVE KeepUnseen(_, _)
KeepUnseen(lst, seen) ==
    IF lst = <<>> THEN <<>>
    ELSE IF Head(lst) \in seen THEN KeepUnseen(Tail(lst), seen)
    ELSE <<Head(lst)>> \o KeepUnseen(Tail(lst), seen \cup {Head(lst)})

\* variant: the last occurrence of each element is the one kept
RECURSIVE RemoveDuplicatesKeepLast(_)
RemoveDuplicatesKeepLast(lst) ==
    IF lst = <<>> THEN <<>>
    ELSE IF \E i \in 2..Len(lst) : lst[i] = Head(lst)
         THEN RemoveDuplicatesKeepLast(Tail(lst))
         ELSE <<Head(lst)>> \o RemoveDuplicatesKeepLast(Tail(lst))

\* remove_duplicates(lst, preserve_order=True), lines 208-210
RemoveDuplicatesOrdered(lst) == KeepUnseen(lst, {})

ElemsOf(lst) == {lst[i] : i \in 1..Len(lst)}

\* remove_duplicates(lst, preserve_order=False), line 212: list(set(lst)) gives the
\* elements of the set in an order the caller cannot rely on
RemoveDuplicatesAnyOrder(lst) ==
    {q \in [1..Cardinality(ElemsOf(lst)) -> ElemsOf(lst)] : ElemsOf(q) = ElemsOf(lst)}

UtilInit ==
    /\ u_pc = "call"
    /\ \/ /\ u_op = "clean_filename"
          /\ u_in \in SeqsUpTo(NameChars, MaxLen)
          /\ u_arg \in Replacements
       \/ /\ u_op = "chunk_list"
          /\ u_in \in SeqsUpTo(Elems, MaxLen)
          /\ u_arg \in ChunkSizes
       \/ /\ u_op = "remove_duplicates"
          /\ u_in \in SeqsUpTo(Elems, MaxLen)
          /\ u_arg \in BOOLEAN
    /\ u_out = [raised |-> FALSE, v |-> <<>>]
    /\ u_again = <<>>

ApplyCleanFilename ==
    /\ u_pc = "call" /\ u_op = "clean_filename"
    /\ u_out' = [raised |-> FALSE, v |-> CleanFilename(u_in, u_arg)]
    /\ u_pc' = "applied"
    /\ UNCHANGED <<u_op, u_in, u_arg, u_again>>
    /\ UNCHANGED not_util_vars

\* clean_filename applied to its own result, with the same replacement
ReapplyCleanFilename ==
    /\ u_pc = "applied" /\ u_op = "clean_filename"
    /\ u_again' = CleanFilename(u_out.v, u_arg)
    /\ u_pc' = "reapplied"
    /\ UNCHANGED <<u_op, u_in, u_arg, u_out>>
    /\ UNCHANGED not_util_vars

ApplyChunkList ==
    /\ u_pc = "call" /\ u_op = "chunk_list"
    /\ u_out' = ChunkList(u_in, u_arg)
    /\ u_pc' = "applied"
    /\ UNCHANGED <<u_op, u_in, u_arg, u_again>>
    /\ UNCHANGED not_util_vars

ApplyRemoveDuplicatesOrdered ==
    /\ u_pc = "call" /\ u_op = "remove_duplicates" /\ u_arg = TRUE
    /\ u_out' = [raised |-> FALSE, v |-> RemoveDuplicatesOrdered(u_in)]
    /\ u_pc' = "applied"
    /\ UNCHANGED <<u_op, u_in, u_arg, u_again>>
    /\ UNCHANGED not_util_vars

ApplyRemoveDuplicatesAnyOrder ==
    /\ u_pc = "call" /\ u_op = "remove_duplicates" /\ u_arg = FALSE
    /\ \E q \in RemoveDuplicatesAnyOrder(u_in) :
         u_out' = [raised |-> FALSE, v |-> q]
    /\ u_pc' = "applied"
    /\ UNCHANGED <<u_op, u_in, u_arg, u_again>>
    /\ UNCHANGED not_util_vars

\* remove_duplicates applied to its own result, with the same preserve_order
ReapplyRemoveDuplicates ==
    /\ u_pc = "applied" /\ u_op = "remove_duplicates"
    /\ \/ /\ u_arg = TRUE
          /\ u_again' = RemoveDuplicatesOrdered(u_out.v)
       \/ /\ u_arg = FALSE
          /\ u_again' \in RemoveDuplicatesAnyOrder(u_out.v)
    /\ u_pc' = "reapplied"
    /\ UNCHANGED <<u_op, u_in, u_arg, u_out>>
    /\ UNCHANGED not_util_vars

UtilNext ==
    \/ ApplyCleanFilename
    \/ ReapplyCleanFilename
    \/ ApplyChunkList
    \/ ApplyRemoveDuplicatesOrdered
    \/ ApplyRemoveDuplicatesAnyOrder
    \/ ReapplyRemoveDuplicates

-----------------------------------------------------------------------------
(* python_helpers/automation/__init__.py: schedule_task *)

\* max_runs: None, or a number of runs
MaxRunsArgs ==
    {[none |-> TRUE, n |-> 0]} \cup {[none |-> FALSE, n |-> k] : k \in 0..MaxRunsArg}

SchedInit ==
    /\ s_pc = "loop"
    /\ s_max_runs \in MaxRunsArgs
    /\ runs = 0
    /\ s_calls = 0
    /\ s_events = <<>>
    /\ s_raised = "None"

\* max_runs is None or runs < max_runs (lines 96 and 101)
MoreRuns(max, r) == max.none \/ r < max.n

\* the while condition is false: schedule_task returns
LoopExit ==
    /\ s_pc = "loop"
    /\ ~MoreRuns(s_max_runs, runs)
    /\ s_pc' = "returned"
    /\ UNCHANGED <<s_max_runs, runs, s_calls, s_events, s_raised>>
    /\ UNCHANGED not_sched_vars

\* func() returns: runs += 1, then sleep unless this was the last run
CallReturnsNormally ==
    /\ s_pc = "loop"
    /\ MoreRuns(s_max_runs, runs)
    /\ s_calls < MaxCalls
    /\ s_calls' = s_calls + 1
    /\ runs' = runs + 1
    /\ s_events' = Append(s_events, "ok")
    /\ s_pc' = IF MoreRuns(s_max_runs, runs') THEN "sleep" ELSE "loop"
    /\ UNCHANGED <<s_max_runs, s_raised>>
    /\ UNCHANGED not_sched_vars

\* func() raises an Exception: runs += 1 is skipped, the error is printed, then
\* time.sleep(interval_seconds)
CallRaisesException ==
    /\ s_pc = "loop"
    /\ MoreRuns(s_max_runs, runs)
    /\ s_calls < MaxCalls
    /\ s_calls' = s_calls + 1
    /\ s_events' = Append(s_events, "error")
    /\ s_pc' = "sleep_err"
    /\ UNCHANGED <<s_max_runs, runs, s_raised>>
    /\ UNCHANGED not_sched_vars

\* func() raises KeyboardInterrupt: break
CallInterrupted ==
    /\ s_pc = "loop"
    /\ MoreRuns(s_max_runs, runs)
    /\ s_calls < MaxCalls
    /\ s_calls' = s_calls + 1
    /\ s_events' = Append(s_events, "interrupt")
    /\ s_pc' = "returned"
    /\ UNCHANGED <<s_max_runs, runs, s_raised>>
    /\ UNCHANGED not_sched_vars

\* func() raises another BaseException (SystemExit): no handler, it propagates
CallExits ==
    /\ s_pc = "loop"
    /\ MoreRuns(s_max_runs, runs)
    /\ s_calls < MaxCalls
    /\ s_calls' = s_calls + 1
    /\ s_events' = Append(s_events, "exit")
    /\ s_pc' = "raised"
    /\ s_raised' = "SystemExit"
    /\ UNCHANGED <<s_max_runs, runs>>
    /\ UNCHANGED not_sched_vars

\* time.sleep of line 102, inside the try: Ctrl-C during it is caught (break)
SleepAfterRun ==
    /\ s_pc = "sleep"
    /\ \/ s_pc' = "loop" /\ s_events' = Append(s_events, "sleep")
       \/ s_pc' = "returned" /\ s_events' = Append(s_events, "sleep_interrupted")
    /\ UNCHANGED <<s_max_runs, runs, s_calls, s_raised>>
    /\ UNCHANGED not_sched_vars

\* time.sleep of line 109, inside the handler: Ctrl-C during it propagates
SleepAfterError ==
    /\ s_pc = "sleep_err"
    /\ \/ /\ s_pc' = "loop"
          /\ s_events' = Append(s_events, "sleep")
          /\ UNCHANGED s_raised
       \/ /\ s_pc' = "raised"
          /\ s_events' = Append(s_events, "sleep_interrupted")
          /\ s_raised' = "KeyboardInterrupt"
    /\ UNCHANGED <<s_max_runs, runs, s_calls>>
    /\ UNCHANGED not_sched_vars

SchedNext ==
    \/ LoopExit
    \/ CallReturnsNormally
    \/ CallRaisesException
    \/ CallInterrupted
    \/ CallExits
    \/ SleepAfterRun
    \/ SleepAfterError

-----------------------------------------------------------------------------
(* python_helpers/file_ops/__init__.py: Python values and JSON text *)

\* A Python value: a scalar (type name t, its text s), a list (elems) or a dict
\* (items: key/value pairs in insertion order, keys distinct).
Scalar(t, s) == [t |-> t, s |-> s, elems |-> <<>>, items |-> <<>>]
PyStr(s) == Scalar("str", s)
PyInt(s) == Scalar("int", s)
PyBool(s) == Scalar("bool", s)
PyNone == Scalar("NoneType", "None")
PyNaN == Scalar("float", "nan")
\* a value json cannot serialize
PySet == Scalar("set", "")
PyList(elems) == [t |-> "list", s |-> "", elems |-> elems, items |-> <<>>]
PyDict(items) == [t |-> "dict", s |-> "", elems |-> <<>>, items |-> items]
Item(k, val) == [k |-> k, val |-> val]

\* A JSON text, by its syntax: string, number, literal (true, false, null),
\* array, object (members in the order written, names possibly repeated).
JString(s) == Scalar("string", s)
JNumber(s) == Scalar("number", s)
JLiteral(s) == Scalar("literal", s)
JArray(elems) == [t |-> "array", s |-> "", elems |-> elems, items |-> <<>>]
JObject(items) == [t |-> "object", s |-> "", elems |-> <<>>, items |-> items]

\* json.dump turns a key that is not a str into one: str(int), 'true'/'false',
\* 'null', repr(float); any other key type is a TypeError
KeyAccepted(k) == k.t \in {"str", "int", "float", "bool", "NoneType"}

KeyText(k) ==
    CASE k.t = "bool" -> (IF k.s = "True" THEN "true" ELSE "false")
      [] k.t = "NoneType" -> "null"
      [] k.t = "float" /\ k.s = "nan" -> "NaN"
      [] OTHER -> k.s

\* whether json.dump(v) runs to the end
RECURSIVE Serializable(_)
Serializable(v) ==
    CASE v.t = "dict" ->
            \A i \in 1..Len(v.items) :
                KeyAccepted(v.items[i].k) /\ Serializable(v.items[i].val)
      [] v.t = "list" -> \A i \in 1..Len(v.elems) : Serializable(v.elems[i])
      [] OTHER -> v.t \in {"str", "int", "float", "bool", "NoneType"}

\* the text json.dump(v, f, ensure_ascii=False) writes for a serializable v
RECURSIVE Dump(_)
Dump(v) ==
    CASE v.t = "dict" ->
            JObject([i \in 1..Len(v.items) |->
                        Item(JString(KeyText(v.items[i].k)), Dump(v.items[i].val))])
      [] v.t = "list" -> JArray([i \in 1..Len(v.elems) |-> Dump(v.elems[i])])
      [] v.t = "str" -> JString(v.s)
      [] v.t = "int" -> JNumber(v.s)
      [] v.t = "float" -> JNumber(IF v.s = "nan" THEN "NaN" ELSE v.s)
      [] v.t = "bool" -> JLiteral(IF v.s = "True" THEN "true" ELSE "false")
      [] OTHER -> JLiteral("null")

\* variant: every JSON scalar is read back as a str
LoadScalarAsStr(j) == PyStr(j.s)

\* json.load on a scalar
LoadScalar(j) ==
    CASE j.t = "string" -> PyStr(j.s)
      [] j.t = "number" -> (IF j.s = "NaN" THEN PyNaN ELSE PyInt(j.s))
      [] j.s = "true" -> PyBool("True")
      [] j.s = "false" -> PyBool("False")
      [] OTHER -> PyNone

\* dict[k] = val: a key already present keeps its place and takes the new value
SetItem(items, k, val) ==
    IF \E i \in 1..Len(items) : items[i].k = k
    THEN [i \in 1..Len(items) |-> IF items[i].k = k THEN Item(k, val) ELSE items[i]]
    ELSE Append(items, Item(k, val))

\* json.load(f) of a valid text
RECURSIVE Load(_)
RECURSIVE LoadMembers(_, _)
LoadMembers(members, acc) ==
    IF members = <<>> THEN acc
    ELSE LoadMembers(Tail(members),
                     SetItem(acc, PyStr(Head(members).k.s), Load(Head(members).val)))

Load(j) ==
    CASE j.t = "object" -> PyDict(LoadMembers(j.items, <<>>))
      [] j.t = "array" -> PyList([i \in 1..Len(j.elems) |-> Load(j.elems[i])])
      [] OTHER -> LoadScalar(j)

\* a == b in Python, for a value a and a freshly loaded value b: dicts compare
\* by key, whatever the order; nan equals nothing.
RECURSIVE PyEq(_, _)
PyEq(a, b) ==
    CASE a.t = "dict" /\ b.t = "dict" ->
            /\ Len(a.items) = Len(b.items)
            /\ \A i \in 1..Len(a.items) : \E j \in 1..Len(b.items) :
                 /\ a.items[i].k = b.items[j].k
                 /\ PyEq(a.items[i].val, b.items[j].val)
      [] a.t = "list" /\ b.t = "list" ->
            /\ Len(a.elems) = Len(b.elems)
            /\ \A i \in 1..Len(a.elems) : PyEq(a.elems[i], b.elems[i])
      [] OTHER -> a = b /\ a # PyNaN

\* What a file holds: a complete JSON text, the beginning of one (json.dump
\* stopped by a TypeError), nothing, or text that is no JSON.
JsonText(doc) == [form |-> "json", doc |-> doc]
PartialText == [form |-> "partial", doc |-> JLiteral("null")]
EmptyText == [form |-> "empty", doc |-> JLiteral("null")]
GarbageText == [form |-> "garbage", doc |-> JLiteral("null")]

\* the text json.dump leaves behind for data, complete or not
DumpedText(data) == IF Serializable(data) THEN JsonText(Dump(data)) ELSE PartialText

RECURSIVE Tokens(_)
RECURSIVE SumTokens(_)
SumTokens(vals) == IF vals = <<>> THEN 0 ELSE Tokens(Head(vals)) + SumTokens(Tail(vals))

\* st_size, as the number of tokens of the text
Tokens(j) ==
    CASE j.t = "object" ->
            2 + Len(j.items) + SumTokens([i \in 1..Len(j.items) |-> j.items[i].val])
      [] j.t = "array" -> 2 + SumTokens(j.elems)
      [] OTHER -> 1

SizeOf(text) ==
    CASE text.form = "json" -> Tokens(text.doc)
      [] text.form = "empty" -> 0
      [] OTHER -> 1

-----------------------------------------------------------------------------
(* python_helpers/file_ops/__init__.py: the file system under the helpers *)

\* the paths given to the helpers, relative to a working directory "."
Paths == {"h", "d", "d/h"}

\* Path.parent and Path.name
Parent(p) == IF p = "d/h" THEN "d" ELSE "."
Name(p) == IF p = "d" THEN "d" ELSE "h"

NoEntry == [kind |-> "none", text |-> EmptyText, mtime |-> 0, locked |-> FALSE]
FileEntry(text, mtime) == [kind |-> "file", text |-> text, mtime |-> mtime, locked |-> FALSE]
\* locked: a directory without search, read and write permission
DirEntry(mtime, locked) == [kind |-> "dir", text |-> EmptyText, mtime |-> mtime, locked |-> locked]

\* errno of resolving the directory that holds p
PrefixErr(f, p) ==
    IF Parent(p) = "." THEN "None"
    ELSE CASE f[Parent(p)].kind = "none" -> "ENOENT"
           [] f[Parent(p)].kind = "file" -> "ENOTDIR"
           [] f[Parent(p)].locked -> "EACCES"
           [] OTHER -> "None"

\* errno of os.stat(p)
StatErr(f, p) ==
    IF p = "." THEN "None"
    ELSE IF PrefixErr(f, p) # "None" THEN PrefixErr(f, p)
    ELSE IF f[p].kind = "none" THEN "ENOENT"
    ELSE "None"

\* the OSError subclass Python raises for an errno
ErrorOf(errno) ==
    CASE errno = "ENOENT" -> "FileNotFoundError"
      [] errno = "ENOTDIR" -> "NotADirectoryError"
      [] errno = "EACCES" -> "PermissionError"
      [] errno = "EEXIST" -> "FileExistsError"
      [] errno = "EISDIR" -> "IsADirectoryError"
      [] OTHER -> "None"

\* pathlib's _ignore_error: ENOENT and ENOTDIR mean "not there", anything else
\* is raised
IgnoredErrnos == {"ENOENT", "ENOTDIR"}

\* variant: every path is taken to exist
PathExistsAlways(f, p) == [raised |-> "None", b |-> TRUE]

\* Path.exists(): [raised, b]
PathExists(f, p) ==
    LET e == StatErr(f, p)
    IN  IF e = "None" THEN [raised |-> "None", b |-> TRUE]
        ELSE IF e \in IgnoredErrnos THEN [raised |-> "None", b |-> FALSE]
        ELSE [raised |-> ErrorOf(e), b |-> FALSE]

KindIs(f, p, kind) == IF p = "." THEN kind = "dir" ELSE f[p].kind = kind

\* Path.is_dir(): [raised, b]
PathIsDir(f, p) ==
    LET x == PathExists(f, p)
    IN  IF x.raised # "None" \/ ~x.b THEN x
        ELSE [raised |-> "None", b |-> KindIs(f, p, "dir")]

\* a new entry in a directory changes the directory's mtime
Touch(f, dir) ==
    IF dir = "." THEN f ELSE [f EXCEPT ![dir].mtime = @ + 1]

\* os.mkdir(p): [errno, fs]
OsMkdir(f, p) ==
    IF p = "." THEN [errno |-> "EEXIST", fs |-> f]
    ELSE IF PrefixErr(f, p) # "None" THEN [errno |-> PrefixErr(f, p), fs |-> f]
    ELSE IF f[p].kind # "none" THEN [errno |-> "EEXIST", fs |-> f]
    ELSE [errno |-> "None",
          fs |-> Touch([f EXCEPT ![p] = DirEntry(0, FALSE)], Parent(p))]

\* Path.mkdir(parents=True, exist_ok=True): [raised, fs]
RECURSIVE PathMkdir(_, _)
PathMkdir(f, p) ==
    LET m == OsMkdir(f, p)
    IN  CASE m.errno = "None" -> [raised |-> "None", fs |-> m.fs]
          [] m.errno = "ENOENT" ->
                LET up == PathMkdir(f, Parent(p))
                IN  IF up.raised # "None" THEN up
                    ELSE LET again == OsMkdir(up.fs, p)
                         IN  [raised |-> ErrorOf(again.errno), fs |-> again.fs]
          [] OTHER ->
                LET d == PathIsDir(f, p)
                IN  IF d.raised # "None" THEN [raised |-> d.raised, fs |-> f]
                    ELSE IF d.b THEN [raised |-> "None", fs |-> f]
                    ELSE [raised |-> ErrorOf(m.errno), fs |-> f]

\* variant: open(p, 'a+'), which creates a missing file
OpenForReadOrCreate(f, p) ==
    IF PrefixErr(f, p) # "None"
    THEN [raised |-> ErrorOf(PrefixErr(f, p)), text |-> EmptyText, fs |-> f]
    ELSE IF f[p].kind = "dir"
    THEN [raised |-> "IsADirectoryError", text |-> EmptyText, fs |-> f]
    ELSE IF f[p].kind = "none"
    THEN [raised |-> "None", text |-> EmptyText,
          fs |-> Touch([f EXCEPT ![p] = FileEntry(EmptyText, 0)], Parent(p))]
    ELSE [raised |-> "None", text |-> f[p].text, fs |-> f]

\* open(p, 'r') and reading the whole file: [raised, text, fs]
OpenForRead(f, p) ==
    IF StatErr(f, p) # "None"
    THEN [raised |-> ErrorOf(StatErr(f, p)), text |-> EmptyText, fs |-> f]
    ELSE IF f[p].kind = "dir"
    THEN [raised |-> "IsADirectoryError", text |-> EmptyText, fs |-> f]
    ELSE [raised |-> "None", text |-> f[p].text, fs |-> f]

\* open(p, 'w'): creates the file or truncates it: [raised, fs]
OpenForWrite(f, p) ==
    IF PrefixErr(f, p) # "None" THEN [raised |-> ErrorOf(PrefixErr(f, p)), fs |-> f]
    ELSE IF f[p].kind = "dir" THEN [raised |-> "IsADirectoryError", fs |-> f]
    ELSE IF f[p].kind = "none"
    THEN [raised |-> "None",
          fs |-> Touch([f EXCEPT ![p] = FileEntry(EmptyText, 0)], Parent(p))]
    ELSE [raised |-> "None",
          fs |-> [f EXCEPT ![p] = FileEntry(EmptyText, f[p].mtime + 1)]]

\* where shutil.copy2 writes: into dst when dst is a directory
CopyTarget(f, src, dst) ==
    IF StatErr(f, dst) = "None" /\ f[dst].kind = "dir"
    THEN (IF dst = "d" /\ Name(src) = "h" THEN "d/h" ELSE "outside")
    ELSE dst

\* shutil.copy2(src, dst): the same-file test, open(src, 'rb'), open(target, 'wb'),
\* then content and mtime of src go to the target: [raised, fs]
Copy2(f, src, dst) ==
    LET target == CopyTarget(f, src, dst)
        r == OpenForRead(f, src)
        w == OpenForWrite(f, target)
    IN  IF target = src /\ StatErr(f, src) = "None"
        THEN [raised |-> "SameFileError", fs |-> f]
        ELSE IF r.raised # "None" THEN [raised |-> r.raised, fs |-> f]
        ELSE IF w.raised # "None" THEN [raised |-> w.raised, fs |-> f]
        ELSE [raised |-> "None",
              fs |-> [w.fs EXCEPT ![target] = FileEntry(r.text, f[src].mtime)]]

-----------------------------------------------------------------------------
(* python_helpers/file_ops/__init__.py: the helpers *)

\* get_file_info's dict; 'created', 'extension' and 'absolute_path' are left out
NoInfo == [name |-> "", size |-> 0, modified |-> 0, is_file |-> FALSE, is_directory |-> FALSE]

\* what a helper returns
RetNone == [kind |-> "None", b |-> FALSE, paths |-> {}, val |-> PyNone, info |-> NoInfo]
RetBool(b) == [kind |-> "bool", b |-> b, paths |-> {}, val |-> PyNone, info |-> NoInfo]
RetPath(p) == [kind |-> "Path", b |-> FALSE, paths |-> {p}, val |-> PyNone, info |-> NoInfo]
RetPaths(ps) == [kind |-> "list", b |-> FALSE, paths |-> ps, val |-> PyNone, info |-> NoInfo]
RetValue(v) == [kind |-> "value", b |-> FALSE, paths |-> {}, val |-> v, info |-> NoInfo]
RetInfo(i) == [kind |-> "dict", b |-> FALSE, paths |-> {}, val |-> PyNone, info |-> i]

Outcome(ret, exc, f) == [ret |-> ret, raised |-> exc, fs |-> f]

\* ensure_directory(directory_path): no exception handler
EnsureDirectory(f, p) ==
    LET m == PathMkdir(f, p)
    IN  IF m.raised = "None" THEN Outcome(RetPath(p), "None", m.fs)
        ELSE Outcome(RetNone, m.raised, m.fs)

\* variant: an existing destination is never a reason to refuse
RefusesNever(dest_exists, overwrite) == FALSE

\* dest_path.exists() and not overwrite
Refuses(dest_exists, overwrite) == dest_exists /\ ~overwrite

\* safe_copy reaches shutil.copy2, and copy2 would write to a path outside Paths
CopiesOutside(f, src, dst, overwrite) ==
    LET s == PathExists(f, src)
        d == PathExists(f, dst)
        e == PathMkdir(f, Parent(dst))
    IN  /\ s.raised = "None" /\ s.b
        /\ d.raised = "None" /\ ~Refuses(d.b, overwrite)
        /\ e.raised = "None"
        /\ CopyTarget(e.fs, src, dst) = "outside"

\* safe_copy(source, destination, overwrite): every exception gives False
SafeCopy(f, src, dst, overwrite) ==
    LET s == PathExists(f, src)
        d == PathExists(f, dst)
        e == PathMkdir(f, Parent(dst))
        c == Copy2(e.fs, src, dst)
    IN  IF s.raised # "None" \/ ~s.b THEN Outcome(RetBool(FALSE), "None", f)
        ELSE IF d.raised # "None" \/ Refuses(d.b, overwrite)
        THEN Outcome(RetBool(FALSE), "None", f)
        ELSE IF e.raised # "None" THEN Outcome(RetBool(FALSE), "None", e.fs)
        ELSE IF c.raised # "None" THEN Outcome(RetBool(FALSE), "None", c.fs)
        ELSE Outcome(RetBool(TRUE), "None", c.fs)

\* the entries scandir(dir) gives; a locked directory or a file gives none
\* (glob swallows PermissionError, and a file has no entries to match)
Children(f, dir) ==
    IF dir # "." /\ (f[dir].kind # "dir" \/ f[dir].locked) THEN {}
    ELSE {p \in Paths : Parent(p) = dir /\ f[p].kind # "none"}

\* path.rglob("*") or path.glob("*")
Glob(f, dir, recursive) ==
    IF recursive
    THEN Children(f, dir) \cup UNION {Children(f, c) : c \in Children(f, dir)}
    ELSE Children(f, dir)

\* find_files(directory, "*", recursive): no exception handler
FindFiles(f, dir, recursive) ==
    LET x == PathExists(f, dir)
    IN  IF x.raised # "None" THEN Outcome(RetNone, x.raised, f)
        ELSE IF ~x.b THEN Outcome(RetPaths({}), "None", f)
        ELSE Outcome(RetPaths(Glob(f, dir, recursive)), "None", f)

\* read_json(file_path): every exception gives None
ReadJson(f, p) ==
    LET o == OpenForRead(f, p)
    IN  IF o.raised # "None" THEN Outcome(RetNone, "None", o.fs)
        ELSE IF o.text.form # "json" THEN Outcome(RetNone, "None", o.fs)
        ELSE Outcome(RetValue(Load(o.text.doc)), "None", o.fs)

\* write_json(data, file_path): every exception gives False; a TypeError in
\* json.dump leaves the beginning of the text in the file
WriteJson(f, data, p) ==
    LET e == PathMkdir(f, Parent(p))
        w == OpenForWrite(e.fs, p)
    IN  IF e.raised # "None" THEN Outcome(RetBool(FALSE), "None", e.fs)
        ELSE IF w.raised # "None" THEN Outcome(RetBool(FALSE), "None", w.fs)
        ELSE Outcome(RetBool(Serializable(data)), "None",
                     [w.fs EXCEPT ![p].text = DumpedText(data)])

\* the dict of lines 150-159
StatInfo(f, p) ==
    [name |-> Name(p),
     size |-> IF f[p].kind = "file" THEN SizeOf(f[p].text) ELSE 0,
     modified |-> f[p].mtime,
     is_file |-> f[p].kind = "file",
     is_directory |-> f[p].kind = "dir"]

\* get_file_info(file_path): every exception gives None
GetFileInfo(f, p) ==
    LET x == PathExists(f, p)
    IN  IF x.raised # "None" \/ ~x.b THEN Outcome(RetNone, "None", f)
        ELSE Outcome(RetInfo(StatInfo(f, p)), "None", f)

-----------------------------------------------------------------------------
(* python_helpers/file_ops/__init__.py: calls of the helpers *)

AbsentFs == [p \in Paths |-> NoEntry]

NoCall ==
    [n |-> 0, op |-> "none", p |-> "", q |-> "", flag |-> FALSE, data |-> PyNone,
     ret |-> RetNone, raised |-> "None", before |-> AbsentFs]

\* {"a": "x"} and {}, as texts already on disk
DocA == Dump(PyDict(<<Item(PyStr("a"), PyStr("x"))>>))
DocB == Dump(PyDict(<<>>))

\* the trees the helpers are called on: h absent, a JSON file or a file that is
\* no JSON; d absent, a file, an empty directory, a directory holding d/h, or a
\* locked directory holding d/h
InitialFs ==
    {[p \in Paths |-> CASE p = "h" -> h [] p = "d" -> dd[1] [] OTHER -> dd[2]] :
        h \in {NoEntry, FileEntry(JsonText(DocA), 0), FileEntry(GarbageText, 0)},
        dd \in {<<NoEntry, NoEntry>>,
                <<FileEntry(GarbageText, 0), NoEntry>>,
                <<DirEntry(0, FALSE), NoEntry>>,
                <<DirEntry(0, FALSE), FileEntry(JsonText(DocB), 0)>>,
                <<DirEntry(0, TRUE), FileEntry(JsonText(DocB), 0)>>}}

\* data given to write_json next to the other helpers: {"a": "x"}, {1: "x"} and
\* {"a": set()}
SmallDicts ==
    {PyDict(<<Item(PyStr("a"), PyStr("x"))>>),
     PyDict(<<Item(PyInt("1"), PyStr("x"))>>),
     PyDict(<<Item(PyStr("a"), PySet)>>)}

\* data given to write_json in the round trip: dicts of up to MaxKeys keys
DictKeys == {PyStr("a"), PyStr("1"), PyInt("1")}
Leaves == {PyStr("x"), PyInt("1"), PyBool("True"), PyNaN, PySet}
DictValues ==
    Leaves \cup {PyList(<<PyStr("x")>>), PyList(<<PyNaN>>)}
           \cup {PyDict(<<Item(k, PyStr("x"))>>) : k \in DictKeys}
Items == {Item(k, v) : k \in DictKeys, v \in DictValues}
Dicts ==
    {PyDict(its) : its \in {s \in SeqsUpTo(Items, MaxKeys) :
                               \A i, j \in 1..Len(s) : i # j => s[i].k # s[j].k}}

FilesInit ==
    /\ fs \in InitialFs
    /\ call = NoCall
    /\ prev = NoCall

\* one call: the result is recorded with the tree the call found
Do(op, p, q, flag, data, out) ==
    /\ fs' = out.fs
    /\ call' = [n |-> call.n + 1, op |-> op, p |-> p, q |-> q, flag |-> flag,
                data |-> data, ret |-> out.ret, raised |-> out.raised, before |-> fs]
    /\ prev' = call
    /\ UNCHANGED not_file_vars

CallEnsureDirectory ==
    /\ call.n < MaxOps
    /\ \E p \in Paths :
         Do("ensure_directory", p, "", FALSE, PyNone, EnsureDirectory(fs, p))

\* a copy that would land outside Paths is not followed
CallSafeCopy ==
    /\ call.n < MaxOps
    /\ \E src \in Paths, dst \in Paths, overwrite \in BOOLEAN :
         /\ ~CopiesOutside(fs, src, dst, overwrite)
         /\ Do("safe_copy", src, dst, overwrite, PyNone, SafeCopy(fs, src, dst, overwrite))

CallFindFiles ==
    /\ call.n < MaxOps
    /\ \E dir \in Paths \cup {"."}, recursive \in BOOLEAN :
         Do("find_files", dir, "", recursive, PyNone, FindFiles(fs, dir, recursive))

CallReadJson ==
    /\ call.n < MaxOps
    /\ \E p \in Paths : Do("read_json", p, "", FALSE, PyNone, ReadJson(fs, p))

CallWriteJson ==
    /\ call.n < MaxOps
    /\ \E data \in SmallDicts, p \in Paths :
         Do("write_json", p, "", FALSE, data, WriteJson(fs, data, p))

CallGetFileInfo ==
    /\ call.n < MaxOps
    /\ \E p \in Paths : Do("get_file_info", p, "", FALSE, PyNone, GetFileInfo(fs, p))

FilesNext ==
    \/ CallEnsureDirectory
    \/ CallSafeCopy
    \/ CallFindFiles
    \/ CallReadJson
    \/ CallWriteJson
    \/ CallGetFileInfo

\* the round trip: write_json of any dict, then read_json
JsonWrite ==
    /\ call.op = "none"
    /\ \E data \in Dicts, p \in Paths :
         Do("write_json", p, "", FALSE, data, WriteJson(fs, data, p))

JsonRead ==
    /\ call.op = "write_json"
    /\ \E p \in Paths : Do("read_json", p, "", FALSE, PyNone, ReadJson(fs, p))

JsonNext ==
    \/ JsonWrite
    \/ JsonRead


-----------------------------------------------------------------------------
(* python_helpers/automation/__init__.py: run_command, batch_commands *)

\* the command strings given to batch_commands
CommandNames == {"a", "b"}

\* how subprocess.run can end under run_command: exit status 0, another exit
\* status, TimeoutExpired, any other Exception (OSError, ...)
RunOutcomes == {"rc0", "rc1", "timeout", "error"}

\* run_command: the dict it returns for each way subprocess.run can end
RunCommand(command, outcome) ==
    CASE outcome = "rc0"     -> [command |-> command, success |-> TRUE,  return_code |-> 0,
                                 stderr |-> ""]
      [] outcome = "rc1"     -> [command |-> command, success |-> FALSE, return_code |-> 1,
                                 stderr |-> ""]
      [] outcome = "timeout" -> [command |-> command, success |-> FALSE, return_code |-> -1,
                                 stderr |-> "Command timed out"]
      [] outcome = "error"   -> [command |-> command, success |-> FALSE, return_code |-> -1,
                                 stderr |-> "str(e)"]

\* a loop that would stop at any failed command, whatever continue_on_error is
BreaksOnAnyFailure(res, continue) == ~res.success

\* batch_commands: the test that leaves the for loop
Breaks(res, continue) == ~res.success /\ ~continue

BatchInit ==
    /\ b_pc = "loop"
    /\ commands \in SeqsUpTo(CommandNames, MaxCommands)
    /\ continue_on_error \in BOOLEAN
    /\ b_next = 1
    /\ results = <<>>
    /\ b_ran = <<>>
    /\ b_raised = "None"

\* one turn of the for loop: run_command(command), results.append, the break test
RunNext(outcome) ==
    /\ b_pc = "loop"
    /\ b_next <= Len(commands)
    /\ LET command == commands[b_next]
           res == RunCommand(command, outcome)
       IN  /\ b_ran' = Append(b_ran, [command |-> command, outcome |-> outcome])
           /\ results' = Append(results, res)
           /\ IF Breaks(res, continue_on_error)
              THEN b_pc' = "returned" /\ b_next' = b_next
              ELSE b_pc' = "loop" /\ b_next' = b_next + 1
    /\ UNCHANGED <<commands, continue_on_error, b_raised>>

\* subprocess.run returns a CompletedProcess
CommandCompletes ==
    /\ \E outcome \in {"rc0", "rc1"} : RunNext(outcome)
    /\ UNCHANGED not_batch_vars

\* subprocess.run raises TimeoutExpired, which run_command turns into a result
CommandTimesOut ==
    /\ RunNext("timeout")
    /\ UNCHANGED not_batch_vars

\* subprocess.run raises another Exception, which run_command turns into a result
CommandCannotRun ==
    /\ RunNext("error")
    /\ UNCHANGED not_batch_vars

\* Ctrl-C while the command runs: KeyboardInterrupt is no Exception and leaves
\* run_command and batch_commands
CommandInterrupted ==
    /\ b_pc = "loop"
    /\ b_next <= Len(commands)
    /\ b_ran' = Append(b_ran, [command |-> commands[b_next], outcome |-> "interrupt"])
    /\ b_raised' = "KeyboardInterrupt"
    /\ b_pc' = "raised"
    /\ UNCHANGED <<commands, continue_on_error, b_next, results>>
    /\ UNCHANGED not_batch_vars

\* the for loop is exhausted: return results
BatchReturns ==
    /\ b_pc = "loop"
    /\ b_next > Len(commands)
    /\ b_pc' = "returned"
    /\ UNCHANGED <<commands, continue_on_error, b_next, results, b_ran, b_raised>>
    /\ UNCHANGED not_batch_vars

BatchNext ==
    \/ CommandCompletes
    \/ CommandTimesOut
    \/ CommandCannotRun
    \/ CommandInterrupted
    \/ BatchReturns


-----------------------------------------------------------------------------
(* python_helpers/utilities/__init__.py: validate_email *)

\* one character of each class the pattern tells apart: a letter, a digit, the
\* dot, a sign allowed only before the '@'
Letters == {"u"}
Digits == {"1"}
LocalClass == Letters \cup Digits \cup {".", "_", "%", "+", "-"}
DomainClass == Letters \cup Digits \cup {".", "-"}
EmailChars == {"u", "1", ".", "+"}

AllIn(s, from, to, class) == \A i \in from..to : s[i] \in class

\* bool(re.match(r'^[a-zA-Z0-9._%+-]+@[a-zA-Z0-9.-]+\.[a-zA-Z]{2,}$', email)):
\* some '@' at position at and some '.' at position dot split the text into
\* one or more local characters, one or more domain characters and two or
\* more letters
ValidateEmail(email) ==
    \E at \in 1..Len(email) : \E dot \in 1..Len(email) :
        /\ at > 1 /\ AllIn(email, 1, at - 1, LocalClass)
        /\ email[at] = "@"
        /\ dot > at + 1 /\ AllIn(email, at + 1, dot - 1, DomainClass)
        /\ email[dot] = "."
        /\ Len(email) - dot >= 2 /\ AllIn(email, dot + 1, Len(email), Letters)

\* the addresses given: a text, then '@' or nothing, then a text
Emails ==
    {local \o at \o domain :
        local \in SeqsUpTo(EmailChars, MaxLocal),
        at \in {<<>>, <<"@">>},
        domain \in SeqsUpTo(EmailChars, MaxLocal + 1)}

EmailInit ==
    /\ u_pc = "call"
    /\ u_op = "validate_email"
    /\ u_in \in Emails
    /\ u_arg = <<>>
    /\ u_out = [raised |-> FALSE, v |-> <<>>]
    /\ u_again = <<>>

ApplyValidateEmail ==
    /\ u_pc = "call" /\ u_op = "validate_email"
    /\ u_out' = [raised |-> FALSE, v |-> ValidateEmail(u_in)]
    /\ u_pc' = "applied"
    /\ UNCHANGED <<u_op, u_in, u_arg, u_again>>
    /\ UNCHANGED not_util_vars

EmailNext == ApplyValidateEmail


-----------------------------------------------------------------------------
(* python_helpers/data_processing/__init__.py: clean_data *)

\* the values of a dictionary: None, a string (its characters), a number
CellNone == [t |-> "NoneType", s |-> <<>>]
CellStr(chars) == [t |-> "str", s |-> chars]
CellInt == [t |-> "int", s |-> <<"0">>]

\* None, '', ' ', ' a', 'a', 0
Cells == {CellNone, CellStr(<<>>), CellStr(<<" ">>), CellStr(<<" ", "a">>),
          CellStr(<<"a">>), CellInt}

ColumnNames == {"k1", "k2"}

\* the dictionaries given: a value for some of the column names
Rows == UNION {[ks -> Cells] : ks \in SUBSET ColumnNames}

\* value is None or value == ""
IsEmptyValue(value) == value = CellNone \/ value = CellStr(<<>>)

\* the inner loop of clean_data: the keys that are not skipped, each with its
\* value, stripped when it is a string
CleanItem(item, remove_empty, strip_strings) ==
    LET kept == {key \in DOMAIN item : ~(remove_empty /\ IsEmptyValue(item[key]))}
    IN  [key \in kept |->
            IF strip_strings /\ item[key].t = "str"
            THEN CellStr(Strip(item[key].s))
            ELSE item[key]]

\* if clean_item: a dictionary is true when it has a key
HasContent(clean_item) == DOMAIN clean_item # {}

\* clean_data(data, remove_empty, strip_strings)
CleanData(data, remove_empty, strip_strings) ==
    SelectSeq([i \in 1..Len(data) |-> CleanItem(data[i], remove_empty, strip_strings)],
              HasContent)

CleanInit ==
    /\ u_pc = "call"
    /\ u_op = "clean_data"
    /\ u_in \in SeqsUpTo(Rows, MaxRows)
    /\ u_arg \in [remove_empty : BOOLEAN, strip_strings : BOOLEAN]
    /\ u_out = [raised |-> FALSE, v |-> <<>>]
    /\ u_again = <<>>

ApplyCleanData ==
    /\ u_pc = "call" /\ u_op = "clean_data"
    /\ u_out' = [raised |-> FALSE,
                 v |-> CleanData(u_in, u_arg.remove_empty, u_arg.strip_strings)]
    /\ u_pc' = "applied"
    /\ UNCHANGED <<u_op, u_in, u_arg, u_again>>
    /\ UNCHANGED not_util_vars

\* clean_data applied to its own result, with the same flags
ReapplyCleanData ==
    /\ u_pc = "applied" /\ u_op = "clean_data"
    /\ u_again' = CleanData(u_out.v, u_arg.remove_empty, u_arg.strip_strings)
    /\ u_pc' = "reapplied"
    /\ UNCHANGED <<u_op, u_in, u_arg, u_out>>
    /\ UNCHANGED not_util_vars

CleanNext ==
    \/ ApplyCleanData
    \/ ReapplyCleanData


-----------------------------------------------------------------------------
(* scripts/automated-tasks/run_DbCheck_sendToAPI_task.py *)

\* assessment links of the rows
Links == {"x", "y"}

\* CleansedResponseValues of a row: JSON text, text that is no JSON, NULL
DbRows == [link : Links, json : {"valid", "invalid", "null"}]

\* what requests.post can give: a response with a status, or an exception
Responses ==
    [status : {200, 201, 500}, exc : {"None"}] \cup [status : {0}, exc : {"Timeout"}]

NoResults == [total |-> 0, successful |-> <<>>, failed |-> <<>>]

\* the loop over cursor.fetchall(): a row whose text is no JSON is skipped
\* (JSONDecodeError), the others become records
RECURSIVE ValidRecords(_)
ValidRecords(rows) ==
    IF rows = <<>> THEN <<>>
    ELSE (IF Head(rows).json = "valid" THEN <<Head(rows).link>> ELSE <<>>)
         \o ValidRecords(Tail(rows))

\* get_records_from_database: json.loads(None) raises TypeError, which like any
\* error of the query is caught by the outer except and gives []
GetRecords(rows, query_ok) ==
    IF ~query_ok \/ \E i \in 1..Len(rows) : rows[i].json = "null"
    THEN <<>>
    ELSE ValidRecords(rows)

\* a test that takes every 2xx status for a success
StatusOkAny2xx(status) == status \in 200..299

\* send_to_api: response.status_code == 200
StatusOk(status) == status = 200

\* send_to_api(record): (success, message)
SendToApi(response) ==
    IF response.exc # "None"
    THEN [success |-> FALSE, message |-> [kind |-> "Error", status |-> 0]]
    ELSE IF StatusOk(response.status)
    THEN [success |-> TRUE, message |-> [kind |-> "Success", status |-> response.status]]
    ELSE [success |-> FALSE, message |-> [kind |-> "HTTP", status |-> response.status]]

\* process_all_records: result_record
ResultRecord(link, message) == [assessment_link |-> link, message |-> message]

\* create_email_report: the summary of the report, or the exception of the
\* division successful_count/total_count
CreateEmailReport(res) ==
    IF res.total = 0
    THEN [raised |-> "ZeroDivisionError", total |-> 0, successful |-> 0, failed |-> 0,
          rate |-> 0]
    ELSE [raised |-> "None", total |-> res.total, successful |-> Len(res.successful),
          failed |-> Len(res.failed),
          rate |-> (Len(res.successful) * 100) \div res.total]

JobInit ==
    /\ j_pc = "connect"
    /\ records = <<>>
    /\ j_i = 1
    /\ j_results = NoResults
    /\ posts = <<>>
    /\ smtp_up \in BOOLEAN
    /\ j_email = "None"
    /\ j_fails = {}

\* connect_to_database returns None: main returns
JobConnectFails ==
    /\ j_pc = "connect"
    /\ j_pc' = "done"
    /\ j_fails' = j_fails \cup {"connect"}
    /\ UNCHANGED <<records, j_i, j_results, posts, smtp_up, j_email>>
    /\ UNCHANGED not_job_vars

JobConnects ==
    /\ j_pc = "connect"
    /\ j_pc' = "query"
    /\ UNCHANGED <<records, j_i, j_results, posts, smtp_up, j_email, j_fails>>
    /\ UNCHANGED not_job_vars

\* main, steps 2 and 3 up to the loop: get_records_from_database, and either
\* the zero results or the start of process_all_records
AfterQuery(found, failure) ==
    /\ records' = found
    /\ j_fails' = j_fails \cup failure
    /\ IF found = <<>>
       THEN j_pc' = "report" /\ j_results' = NoResults
       ELSE j_pc' = "post" /\ j_results' = [NoResults EXCEPT !.total = Len(found)]
    /\ UNCHANGED <<j_i, posts, smtp_up, j_email>>

JobQueryReturns ==
    /\ j_pc = "query"
    /\ \E rows \in SeqsUpTo(DbRows, MaxRecords) :
         AfterQuery(GetRecords(rows, TRUE),
                    IF \E i \in 1..Len(rows) : rows[i].json = "null" THEN {"query"}
                    ELSE IF \E i \in 1..Len(rows) : rows[i].json = "invalid"
                    THEN {"invalid_json"} ELSE {})
    /\ UNCHANGED not_job_vars

JobQueryFails ==
    /\ j_pc = "query"
    /\ AfterQuery(GetRecords(<<>>, FALSE), {"query"})
    /\ UNCHANGED not_job_vars

\* one turn of the loop of process_all_records
PostNext(response) ==
    /\ j_pc = "post"
    /\ j_i <= Len(records)
    /\ LET link == records[j_i]
           sent == SendToApi(response)
           result_record == ResultRecord(link, sent.message)
       IN  /\ posts' = Append(posts, [link |-> link, response |-> response])
           /\ j_results' =
                 IF sent.success
                 THEN [j_results EXCEPT !.successful = Append(@, result_record)]
                 ELSE [j_results EXCEPT !.failed = Append(@, result_record)]
    /\ j_i' = j_i + 1
    /\ j_pc' = IF j_i = Len(records) THEN "report" ELSE "post"
    /\ UNCHANGED <<records, smtp_up, j_email, j_fails>>

\* requests.post returns a response
PostAnswered ==
    /\ \E response \in Responses : response.exc = "None" /\ PostNext(response)
    /\ UNCHANGED not_job_vars

\* requests.post raises
PostRaises ==
    /\ \E response \in Responses : response.exc # "None" /\ PostNext(response)
    /\ UNCHANGED not_job_vars

\* send_email_report returns True: the report was built and the server took it
EmailReportSent ==
    /\ j_pc = "report"
    /\ CreateEmailReport(j_results).raised = "None"
    /\ smtp_up
    /\ j_email' = "True"
    /\ j_pc' = "done"
    /\ UNCHANGED <<records, j_i, j_results, posts, smtp_up, j_fails>>
    /\ UNCHANGED not_job_vars

\* send_email_report returns False: an exception of create_email_report or of
\* smtplib was caught
EmailReportFails ==
    /\ j_pc = "report"
    /\ CreateEmailReport(j_results).raised # "None" \/ ~smtp_up
    /\ j_email' = "False"
    /\ j_fails' = j_fails \cup
          (IF CreateEmailReport(j_results).raised # "None" THEN {"report"} ELSE {"smtp"})
    /\ j_pc' = "done"
    /\ UNCHANGED <<records, j_i, j_results, posts, smtp_up>>
    /\ UNCHANGED not_job_vars

JobNext ==
    \/ JobConnectFails
    \/ JobConnects
    \/ JobQueryReturns
    \/ JobQueryFails
    \/ PostAnswered
    \/ PostRaises
    \/ EmailReportSent
    \/ EmailReportFails

-----------------------------------------------------------------------------
(* Specifications *)

\* the part of the state a specification does not use
AlertOff ==
    /\ file_exists = FALSE
    /\ file_content = <<>>
    /\ pc = [p \in Procs |-> "off"]
    /\ total_count = [p \in Procs |-> 0]
    /\ last_state = [p \in Procs |-> <<>>]
    /\ write_arg = [p \in Procs |-> "None"]
    /\ acts = [p \in Procs |-> <<>>]
    /\ fails = [p \in Procs |-> {}]
    /\ read_saw = [p \in Procs |-> "none"]
    /\ before = [p \in Procs |-> [exists |-> FALSE, content |-> <<>>]]
    /\ run_no = [p \in Procs |-> 0]
    /\ query_no = [p \in Procs |-> 0]
    /\ started = 0
    /\ events = <<>>
    /\ io_failed = FALSE
    /\ queries = 0
    /\ last_writer = 0
    /\ unsent = "none"

RetryOff ==
    /\ r_pc = "off"
    /\ max_attempts = 0
    /\ delay = 0
    /\ delay_arg = 0
    /\ backoff = 0
    /\ attempt = 0
    /\ calls = 0
    /\ outcomes = <<>>
    /\ last_exception = "None"
    /\ result = "None"
    /\ raised = "None"
    /\ sleeps = <<>>

UtilOff ==
    /\ u_pc = "off"
    /\ u_op = "None"
    /\ u_in = <<>>
    /\ u_arg = <<>>
    /\ u_out = [raised |-> FALSE, v |-> <<>>]
    /\ u_again = <<>>

SchedOff ==
    /\ s_pc = "off"
    /\ s_max_runs = [none |-> TRUE, n |-> 0]
    /\ runs = 0
    /\ s_calls = 0
    /\ s_events = <<>>
    /\ s_raised = "None"

FilesOff ==
    /\ fs = AbsentFs
    /\ call = NoCall
    /\ prev = NoCall

JobOff ==
    /\ j_pc = "off"
    /\ records = <<>>
    /\ j_i = 1
    /\ j_results = NoResults
    /\ posts = <<>>
    /\ smtp_up = TRUE
    /\ j_email = "None"
    /\ j_fails = {}

BatchOff ==
    /\ b_pc = "off"
    /\ commands = <<>>
    /\ continue_on_error = TRUE
    /\ b_next = 1
    /\ results = <<>>
    /\ b_ran = <<>>
    /\ b_raised = "None"

\* invocations of the pending-reports job that may overlap
Init == AlertInit /\ RetryOff /\ UtilOff /\ SchedOff /\ FilesOff /\ BatchOff /\ JobOff
Next == AlertNext
Spec == Init /\ [][Next]_vars

\* invocations of the pending-reports job run one after the other
NextSeq == AlertNextSeq
SpecSeq == Init /\ [][NextSeq]_vars

\* one call of retry_operation
InitRetry == RetryInit /\ AlertOff /\ UtilOff /\ SchedOff /\ FilesOff /\ BatchOff /\ JobOff
NextRetry == RetryNext
SpecRetry == InitRetry /\ [][NextRetry]_vars

\* one call of a list or string utility, and the same function on its result
InitUtil == UtilInit /\ AlertOff /\ RetryOff /\ SchedOff /\ FilesOff /\ BatchOff /\ JobOff
NextUtil == UtilNext
SpecUtil == InitUtil /\ [][NextUtil]_vars

\* one call of schedule_task, func free to return or raise at every invocation
InitSched == SchedInit /\ AlertOff /\ RetryOff /\ UtilOff /\ FilesOff /\ BatchOff /\ JobOff
NextSched == SchedNext
SpecSched == InitSched /\ [][NextSched]_vars

\* calls of the file helpers, one after the other, on a small tree
InitFiles == FilesInit /\ AlertOff /\ RetryOff /\ UtilOff /\ SchedOff /\ BatchOff /\ JobOff
NextFiles == FilesNext
SpecFiles == InitFiles /\ [][NextFiles]_vars

\* write_json of any dict followed by read_json
NextJson == JsonNext
SpecJson == InitFiles /\ [][NextJson]_vars

\* one call of validate_email
InitEmail == EmailInit /\ AlertOff /\ RetryOff /\ SchedOff /\ FilesOff /\ BatchOff /\ JobOff
NextEmail == EmailNext
SpecEmail == InitEmail /\ [][NextEmail]_vars

\* one call of clean_data and one more on its result
InitClean == CleanInit /\ AlertOff /\ RetryOff /\ SchedOff /\ FilesOff /\ BatchOff /\ JobOff
NextClean == CleanNext
SpecClean == InitClean /\ [][NextClean]_vars

\* one invocation of run_DbCheck_sendToAPI_task.main
InitJob == JobInit /\ AlertOff /\ RetryOff /\ UtilOff /\ SchedOff /\ FilesOff /\ BatchOff
NextJob == JobNext
SpecJob == InitJob /\ [][NextJob]_vars

\* one call of batch_commands
InitBatch == BatchInit /\ AlertOff /\ RetryOff /\ UtilOff /\ SchedOff /\ FilesOff /\ JobOff
NextBatch == BatchNext
SpecBatch == InitBatch /\ [][NextBatch]_vars

-----------------------------------------------------------------------------
(* Properties of run_pendingReports_task.main *)

\* the run of p went past connect_to_database
Connected(p) == "connect" \notin fails[p]

WarningEmail == [op |-> "email", arg |-> "WARNING"]
RecoveryEmail == [op |-> "email", arg |-> "RECOVERY"]
WriteOf(state) == [op |-> "write", arg |-> state]

\* what the next read_last_alert_state would take the file for
EffectiveState == IF file_exists THEN Strip(file_content) ELSE Chars("NORMAL")

Quiescent == \A p \in Procs : pc[p] = "idle"

\* C1: a completed run that connected and saw total_count > ALERT_THRESHOLD has
\* attempted exactly one WARNING email and then called write_alert_state('WARNING'),
\* whatever last state it read; when that write went through, the file holds WARNING.
C1_WarningAlways ==
    \A p \in Procs :
        (pc[p] = "done" /\ Connected(p) /\ total_count[p] > ALERT_THRESHOLD) =>
            /\ acts[p] = <<WarningEmail, WriteOf("WARNING")>>
            /\ ("write" \notin fails[p] =>
                    file_exists /\ file_content = Chars("WARNING"))

\* C1 witness: a repeated WARNING, sent by a run that read 'WARNING'
C1_Witness ==
    \E p \in Procs :
        /\ pc[p] = "done" /\ fails[p] = {}
        /\ total_count[p] > ALERT_THRESHOLD
        /\ last_state[p] = Chars("WARNING")
        /\ before[p] = [exists |-> TRUE, content |-> Chars("WARNING")]
        /\ acts[p] = <<WarningEmail, WriteOf("WARNING")>>
        /\ file_content = Chars("WARNING")

\* C2: a completed run with 0 <= total_count <= ALERT_THRESHOLD that read 'WARNING'
\* has attempted exactly one RECOVERY email and then called write_alert_state('NORMAL'),
\* and no WARNING email; when that write went through, the file holds NORMAL.
C2_RecoveryOnce ==
    \A p \in Procs :
        (/\ pc[p] = "done" /\ Connected(p)
         /\ total_count[p] >= 0 /\ total_count[p] <= ALERT_THRESHOLD
         /\ last_state[p] = Chars("WARNING")) =>
            /\ acts[p] = <<RecoveryEmail, WriteOf("NORMAL")>>
            /\ ("write" \notin fails[p] =>
                    file_exists /\ file_content = Chars("NORMAL"))

\* C2 witness: the recovery at a count equal to the threshold
C2_Witness ==
    \E p \in Procs :
        /\ pc[p] = "done" /\ fails[p] = {}
        /\ total_count[p] = ALERT_THRESHOLD
        /\ last_state[p] = Chars("WARNING")
        /\ acts[p] = <<RecoveryEmail, WriteOf("NORMAL")>>
        /\ file_content = Chars("NORMAL")

\* C3: a completed run with total_count <= ALERT_THRESHOLD that read anything but
\* 'WARNING' has sent no email and made no write, and the state file is what it was
\* when the run started (not created when it was absent).
C3_NothingOtherwise ==
    \A p \in Procs :
        (/\ pc[p] = "done" /\ Connected(p)
         /\ total_count[p] <= ALERT_THRESHOLD
         /\ last_state[p] # Chars("WARNING")) =>
            /\ acts[p] = <<>>
            /\ FileNow = before[p]

\* C3 witness: a quiet run on an absent state file, which stays absent
C3_Witness ==
    \E p \in Procs :
        /\ pc[p] = "done" /\ fails[p] = {}
        /\ query_no[p] > 0
        /\ total_count[p] <= ALERT_THRESHOLD
        /\ last_state[p] = Chars("NORMAL")
        /\ acts[p] = <<>>
        /\ ~file_exists /\ ~before[p].exists

\* C4: read_last_alert_state gives 'NORMAL' when the file is absent and when reading
\* it raises; the first-ever run, when its count is at or below the threshold, sends
\* no RECOVERY email.
C4_DefaultNormal ==
    \A p \in Procs :
        /\ read_saw[p] \in {"absent", "error"} => last_state[p] = Chars("NORMAL")
        /\ (/\ run_no[p] = 1 /\ pc[p] = "done" /\ Connected(p)
            /\ total_count[p] <= ALERT_THRESHOLD) =>
                \A i \in 1..Len(acts[p]) : acts[p][i] # RecoveryEmail

\* C4 witness: the first-ever run finds no file and a count at or below the threshold
C4_Witness ==
    \E p \in Procs :
        /\ run_no[p] = 1 /\ pc[p] = "done" /\ fails[p] = {}
        /\ read_saw[p] = "absent"
        /\ last_state[p] = Chars("NORMAL")
        /\ total_count[p] <= ALERT_THRESHOLD
        /\ acts[p] = <<>>

\* C5: between invocations the state file is absent or holds exactly NORMAL or WARNING.
C5_OnlyNormalOrWarning ==
    Quiescent =>
        (~file_exists \/ file_content \in {Chars("NORMAL"), Chars("WARNING")})

\* C6: while no state-file read or write has failed, no two RECOVERY emails follow
\* each other without a run above the threshold in between, and none precedes the
\* first run above the threshold.
C6_OneRecoveryPerEpisode ==
    ~io_failed =>
        /\ (events # <<>> => events[1] = "EXCEED")
        /\ \A i \in 1..(Len(events) - 1) :
               ~(events[i] = "RECOVERY" /\ events[i + 1] = "RECOVERY")

\* C6 witness: a WARNING episode, its RECOVERY, then a quiet run that sends nothing
C6_Witness ==
    /\ ~io_failed /\ Quiescent
    /\ started = MaxRuns /\ queries = MaxRuns
    /\ events = <<"EXCEED", "RECOVERY">>
    /\ file_content = Chars("NORMAL")

\* C7 as stated: after a completed run whose database connection and state-file
\* write succeeded, the effective persisted state is WARNING iff the run's
\* total_count exceeded the threshold.
C7_Original ==
    \A p \in Procs :
        (pc[p] = "done" /\ Connected(p) /\ "write" \notin fails[p]) =>
            ((EffectiveState = Chars("WARNING")) <=> (total_count[p] > ALERT_THRESHOLD))

\* C7 amended: the same, for runs whose state-file read succeeded as well.
C7_StateTracksCount ==
    \A p \in Procs :
        (/\ pc[p] = "done" /\ Connected(p)
         /\ "write" \notin fails[p] /\ "read" \notin fails[p]) =>
            ((EffectiveState = Chars("WARNING")) <=> (total_count[p] > ALERT_THRESHOLD))

\* C7 witness: a run at or below the threshold takes the file from WARNING to NORMAL
C7_Witness ==
    \E p \in Procs :
        /\ pc[p] = "done" /\ fails[p] = {}
        /\ before[p] = [exists |-> TRUE, content |-> Chars("WARNING")]
        /\ total_count[p] <= ALERT_THRESHOLD
        /\ EffectiveState = Chars("NORMAL")

\* C8: no access to the state file waits for another invocation: the read, the open
\* and the write of an invocation are enabled wherever the other one stands; and
\* every invocation that read 'WARNING' with a count at or below the threshold sends
\* its own RECOVERY, whatever the file holds by then.
C8_NoLock ==
    \A p \in Procs :
        /\ pc[p] = "read" => ENABLED ReadLastAlertState(p)
        /\ pc[p] = "open" => ENABLED OpenStateFile(p)
        /\ pc[p] = "flush" => ENABLED FlushStateFile(p)
        /\ (/\ pc[p] \in {"open", "flush", "done"}
            /\ total_count[p] <= ALERT_THRESHOLD
            /\ last_state[p] = Chars("WARNING")) =>
                (acts[p] # <<>> /\ acts[p][1] = RecoveryEmail)

\* C8 witness: two overlapping runs read 'WARNING' of the same episode, both send
\* RECOVERY, and the write that ends up in the file is that of the run whose
\* database query was the older one
C8_Witness ==
    \E p, q \in Procs :
        /\ p # q
        /\ pc[p] = "done" /\ pc[q] = "done"
        /\ fails[p] = {} /\ fails[q] = {}
        /\ last_state[p] = Chars("WARNING") /\ last_state[q] = Chars("WARNING")
        /\ acts[p] = <<RecoveryEmail, WriteOf("NORMAL")>>
        /\ acts[q] = <<RecoveryEmail, WriteOf("NORMAL")>>
        /\ events = <<"EXCEED", "RECOVERY", "RECOVERY">>
        /\ query_no[p] < query_no[q]
        /\ last_writer = run_no[p]

-----------------------------------------------------------------------------
(* Properties of retry_operation *)

AllRaised == \A i \in 1..Len(outcomes) : outcomes[i].kind = "raise"

\* C9: for max_attempts >= 1, no call of func follows one that did not raise, the
\* value returned is that of the last (the first successful) call, and the function
\* does not give up while attempts remain: after k < max_attempts failures and a
\* success func has been called k+1 times and its value is the result.
C9_FirstSuccessReturned ==
    max_attempts >= 1 =>
        /\ calls = Len(outcomes)
        /\ calls <= max_attempts
        /\ \A i \in 1..(Len(outcomes) - 1) : outcomes[i].kind = "raise"
        /\ r_pc = "returned" =>
              /\ outcomes # <<>>
              /\ outcomes[Len(outcomes)].kind = "return"
              /\ result = outcomes[Len(outcomes)].what
              /\ raised = "None"
        /\ r_pc = "raised" => calls = max_attempts

\* C9 witness: two failures, then a success on the third and last allowed attempt
C9_Witness ==
    /\ r_pc = "returned"
    /\ max_attempts = 3
    /\ calls = 3
    /\ outcomes[1].kind = "raise" /\ outcomes[2].kind = "raise"
    /\ outcomes[3] = [kind |-> "return", what |-> "success"]
    /\ result = "success"

\* C10: for max_attempts >= 1, when every call of func raises, func is called exactly
\* max_attempts times and the exception of the last call is raised; nothing is
\* returned in that case.
C10_AllFailRaisesLast ==
    max_attempts >= 1 =>
        /\ r_pc = "raised" =>
              /\ calls = max_attempts
              /\ Len(outcomes) = max_attempts
              /\ AllRaised
              /\ raised = outcomes[Len(outcomes)].what
              /\ result = "None"
        /\ (Len(outcomes) = max_attempts /\ AllRaised) => r_pc = "raised"
        /\ r_pc = "returned" => ~AllRaised

\* C10 witness: three failures with different exceptions; the third one is raised
C10_Witness ==
    /\ r_pc = "raised"
    /\ max_attempts = 3
    /\ calls = 3
    /\ AllRaised
    /\ outcomes[1].what # outcomes[3].what
    /\ raised = outcomes[3].what

RECURSIVE Pow(_, _)
Pow(b, n) == IF n = 0 THEN 1 ELSE b * Pow(b, n - 1)

Failures == Cardinality({i \in 1..Len(outcomes) : outcomes[i].kind = "raise"})

Min(a, b) == IF a < b THEN a ELSE b

-----------------------------------------------------------------------------
(* Properties of the list and string utilities, checked under SpecUtil *)

ValidReplacement == ElemsOf(u_arg) \cap InvalidChars = {}

\* C16: for every file name and every replacement free of < > : " / \ | ? *,
\* clean_filename gives a non-empty name without any of those characters that
\* neither starts nor ends with a dot or a space; a name of which nothing but
\* dots and spaces is left after the substitution becomes 'unnamed_file'; and
\* clean_filename applied to its own result gives that result again.
C16_CleanFilename ==
    (u_op = "clean_filename" /\ u_pc \in {"applied", "reapplied"} /\ ValidReplacement) =>
        /\ ~u_out.raised
        /\ u_out.v # <<>>
        /\ ElemsOf(u_out.v) \cap InvalidChars = {}
        /\ u_out.v[1] \notin {".", " "}
        /\ u_out.v[Len(u_out.v)] \notin {".", " "}
        /\ ElemsOf(ReSub(u_in, u_arg)) \subseteq {".", " "} => u_out.v = UnnamedFile
        /\ u_pc = "reapplied" => u_again = u_out.v

C16_Witness ==
    /\ u_op = "clean_filename" /\ u_pc = "reapplied"
    /\ u_in = <<".", "a", "<">> /\ u_arg = <<"_">>
    /\ u_out.v = <<"a", "_">> /\ u_again = <<"a", "_">>

RECURSIVE Concat(_)
Concat(chunks) ==
    IF chunks = <<>> THEN <<>> ELSE Head(chunks) \o Concat(Tail(chunks))

\* C17: for chunk_size >= 1 the chunks of chunk_list concatenate to the list,
\* all but the last have exactly chunk_size elements, the last has between 1
\* and chunk_size, none is empty, and there are ceil(len(lst) / chunk_size).
C17_ChunkLaws ==
    (u_op = "chunk_list" /\ u_pc = "applied" /\ u_arg >= 1) =>
        LET chunks == u_out.v
            n == Len(chunks)
        IN  /\ ~u_out.raised
            /\ Concat(chunks) = u_in
            /\ \A k \in 1..(n - 1) : Len(chunks[k]) = u_arg
            /\ n >= 1 => Len(chunks[n]) \in 1..u_arg
            /\ \A k \in 1..n : chunks[k] # <<>>
            /\ n = (Len(u_in) + u_arg - 1) \div u_arg

C17_Witness ==
    /\ u_op = "chunk_list" /\ u_pc = "applied"
    /\ u_in = <<1, 2, 3>> /\ u_arg = 2
    /\ u_out.v = << <<1, 2>>, <<3>> >>

FirstIndex(lst, x) == CHOOSE i \in 1..Len(lst) : lst[i] = x /\ \A j \in 1..(i - 1) : lst[j] # x

\* C18: remove_duplicates with preserve_order=True keeps each distinct element
\* once, in the order of first occurrence, and is idempotent; with
\* preserve_order=False the result has the elements and the length of the
\* preserve_order=True result.
C18_DedupLaws ==
    (u_op = "remove_duplicates" /\ u_pc \in {"applied", "reapplied"}) =>
        LET out == u_out.v
        IN  /\ ~u_out.raised
            /\ u_arg = TRUE =>
                 /\ ElemsOf(out) = ElemsOf(u_in)
                 /\ \A i, j \in 1..Len(out) : i # j => out[i] # out[j]
                 /\ \A i, j \in 1..Len(out) :
                      i < j => FirstIndex(u_in, out[i]) < FirstIndex(u_in, out[j])
                 /\ u_pc = "reapplied" => u_again = out
            /\ u_arg = FALSE =>
                 /\ ElemsOf(out) = ElemsOf(RemoveDuplicatesOrdered(u_in))
                 /\ Len(out) = Len(RemoveDuplicatesOrdered(u_in))

C18_Witness ==
    /\ u_op = "remove_duplicates" /\ u_pc = "reapplied" /\ u_arg = TRUE
    /\ u_in = <<2, 1, 2>> /\ u_out.v = <<2, 1>> /\ u_again = <<2, 1>>

-----------------------------------------------------------------------------
(* Properties of schedule_task, checked under SpecSched *)

\* C20: with a finite max_runs = n, func is invoked at most n times, whatever
\* it returns or raises, and when schedule_task returns the last thing it did
\* was not a completed sleep.
C20_BoundedRuns ==
    ~s_max_runs.none =>
        /\ s_calls <= s_max_runs.n
        /\ (s_pc = "returned" /\ s_events # <<>>) => s_events[Len(s_events)] # "sleep"

-----------------------------------------------------------------------------
(* Properties of the file helpers, checked under SpecJson and SpecFiles *)

\* the last two calls are write_json(d, p) returning True and read_json(p)
RoundTrip ==
    /\ prev.op = "write_json" /\ prev.ret = RetBool(TRUE)
    /\ call.op = "read_json" /\ call.p = prev.p

RECURSIVE StringKeys(_)
StringKeys(v) ==
    CASE v.t = "dict" ->
            \A i \in 1..Len(v.items) :
                v.items[i].k.t = "str" /\ StringKeys(v.items[i].val)
      [] v.t = "list" -> \A i \in 1..Len(v.elems) : StringKeys(v.elems[i])
      [] OTHER -> TRUE

RECURSIVE NoNaN(_)
NoNaN(v) ==
    CASE v.t = "dict" -> \A i \in 1..Len(v.items) : NoNaN(v.items[i].val)
      [] v.t = "list" -> \A i \in 1..Len(v.elems) : NoNaN(v.elems[i])
      [] OTHER -> v # PyNaN

\* C12 as stated: whenever write_json(d, p) returned True, the read_json(p)
\* that follows returns a value equal to d, for every dict write_json accepts.
C12_Original ==
    RoundTrip => (call.ret.kind = "value" /\ PyEq(prev.data, call.ret.val))

\* C12: whenever write_json(d, p) returned True for a dict d whose keys are
\* strings at every level and which holds no NaN, the read_json(p) that follows
\* returns a value equal to d.
C12_RoundTripStringKeys ==
    (RoundTrip /\ StringKeys(prev.data) /\ NoNaN(prev.data)) =>
        (call.ret.kind = "value" /\ PyEq(prev.data, call.ret.val))

C12_Witness ==
    /\ RoundTrip
    /\ prev.data = PyDict(<<Item(PyStr("a"), PyDict(<<Item(PyStr("1"), PyStr("x"))>>)),
                            Item(PyStr("1"), PyList(<<PyStr("x")>>))>>)
    /\ call.ret.kind = "value"
    /\ PyEq(prev.data, call.ret.val)

\* the path did not exist when the call was made
Missing(p) == StatErr(call.before, p) \in IgnoredErrnos

\* C13: read_json raises nothing and changes nothing in the file system, and
\* returns None when the file does not exist or does not hold valid JSON.
C13_ReadJsonNone ==
    call.op = "read_json" =>
        /\ call.raised = "None"
        /\ fs = call.before
        /\ Missing(call.p) => call.ret = RetNone
        /\ (StatErr(call.before, call.p) = "None"
              /\ call.before[call.p].kind = "file"
              /\ call.before[call.p].text.form # "json") => call.ret = RetNone

C13_Witness ==
    /\ prev.op = "read_json" /\ prev.p = "h" /\ fs["h"].kind = "none"
    /\ prev.ret = RetNone
    /\ call.op = "read_json" /\ call.p = "d" /\ fs["d"] = FileEntry(GarbageText, 0)
    /\ call.ret = RetNone /\ call.raised = "None"

\* C14: safe_copy returns False and leaves the whole tree (destination and its
\* parent included) as it was when the source does not exist or when the
\* destination exists and overwrite is False; a call that found the destination
\* and changed anything had overwrite True.
C14_SafeCopyRefuses ==
    call.op = "safe_copy" =>
        /\ (Missing(call.p) \/ (StatErr(call.before, call.q) = "None" /\ ~call.flag)) =>
              /\ call.ret = RetBool(FALSE)
              /\ call.raised = "None"
              /\ fs = call.before
        /\ (StatErr(call.before, call.q) = "None" /\ fs # call.before) => call.flag

C14_Witness ==
    /\ call.op = "safe_copy" /\ call.p = "h" /\ call.q = "d/h" /\ ~call.flag
    /\ call.before["h"].kind = "file" /\ call.before["d/h"].kind = "file"
    /\ call.before["h"].text # call.before["d/h"].text
    /\ call.ret = RetBool(FALSE)
    /\ fs = call.before

C19_NeverPropagates ==
    call.op \in {"ensure_directory", "safe_copy", "find_files", "read_json",
                 "write_json", "get_file_info"} => call.raised = "None"

-----------------------------------------------------------------------------
(* Further properties of run_pendingReports_task.main, checked under SpecSeq *)

\* C29: a run whose connect_to_database failed ends without a query, without
\* reading or writing the state file and without any email, and the state file
\* is what it was when the run started.
C29_NoConnectionNoEffect ==
    \A p \in Procs :
        (pc[p] # "idle" /\ ~Connected(p)) =>
            /\ pc[p] = "done"
            /\ query_no[p] = 0
            /\ read_saw[p] = "none"
            /\ acts[p] = <<>>
            /\ FileNow = before[p]

\* C29 witness: the connection fails while the file holds WARNING
C29_Witness ==
    \E p \in Procs :
        /\ pc[p] = "done" /\ fails[p] = {"connect"}
        /\ before[p] = [exists |-> TRUE, content |-> Chars("WARNING")]
        /\ acts[p] = <<>>
        /\ FileNow = before[p]

\* C26: a run whose database query failed attempts no RECOVERY email and does
\* not call write_alert_state('NORMAL').
C26_NoRecoveryOnQueryFailure ==
    \A p \in Procs :
        "query" \in fails[p] =>
            \A i \in 1..Len(acts[p]) :
                acts[p][i] # RecoveryEmail /\ acts[p][i] # WriteOf("NORMAL")

\* C28: when the write of a RECOVERY run fails, the run still completes and the
\* state file still reads WARNING at its end, so that the next run at or below
\* the threshold sends RECOVERY again; when the write of a WARNING run that
\* started from a state other than WARNING fails, the file does not read WARNING.
C28_FailedWriteKeepsState ==
    \A p \in Procs :
        (pc[p] = "done" /\ "write" \in fails[p]) =>
            /\ acts[p] = <<RecoveryEmail, WriteOf("NORMAL")>> =>
                   EffectiveState = Chars("WARNING")
            /\ (/\ acts[p] = <<WarningEmail, WriteOf("WARNING")>>
                /\ before[p].content # Chars("WARNING")) =>
                   EffectiveState # Chars("WARNING")

\* a write_alert_state call of the run is the second thing it did, after an email,
\* and a completed run whose email was not sent has made the call all the same
EmailThenWrite ==
    \A p \in Procs :
        /\ \A i \in 1..Len(acts[p]) :
               acts[p][i].op = "write" => (i = 2 /\ acts[p][1].op = "email")
        /\ (pc[p] = "done" /\ "email" \in fails[p]) =>
               acts[p] \in {<<WarningEmail, WriteOf("WARNING")>>,
                            <<RecoveryEmail, WriteOf("NORMAL")>>}

\* C27 as stated: the email comes before the state write and its failure does not
\* stop the write; and after a RECOVERY email that was not sent, no run sends
\* RECOVERY until a run exceeds the threshold.
C27_Original ==
    /\ EmailThenWrite
    /\ unsent # "none" => \A p \in Procs : ~ENABLED SendRecovery(p)

\* C27 amended: the same, where the run whose RECOVERY email was not sent did get
\* NORMAL into the state file.
C27_EmailOutcomeIgnored ==
    /\ EmailThenWrite
    /\ unsent = "written" => \A p \in Procs : ~ENABLED SendRecovery(p)

\* C27 witness: WARNING, then a RECOVERY that is not sent but written, then a run
\* at or below the threshold that has nothing to send
C27_Witness ==
    /\ unsent = "written"
    /\ events = <<"EXCEED", "RECOVERY">>
    /\ \E p \in Procs :
         /\ pc[p] = "done" /\ fails[p] = {} /\ run_no[p] = 3
         /\ query_no[p] > 0
         /\ total_count[p] <= ALERT_THRESHOLD
         /\ last_state[p] = Chars("NORMAL")
         /\ acts[p] = <<>>

-----------------------------------------------------------------------------
(* Properties of batch_commands, checked under SpecBatch *)

\* results[i] is what run_command gave for the i-th subprocess started
ResultsFollowRuns ==
    /\ Len(results) = Len(b_ran)
    /\ \A i \in 1..Len(results) :
          results[i] = RunCommand(b_ran[i].command, b_ran[i].outcome)

\* the subprocesses started are a prefix of commands, in list order
RanInListOrder ==
    /\ Len(b_ran) <= Len(commands)
    /\ \A i \in 1..Len(b_ran) : b_ran[i].command = commands[i]

\* C21: batch_commands runs the commands in list order and returns one result
\* per command run, in that order; with continue_on_error=True it returns
\* len(commands) results; with continue_on_error=False the results end with
\* the first command whose success is False and nothing after it was run.
C21_BatchCommands ==
    b_pc = "returned" =>
        /\ RanInListOrder
        /\ ResultsFollowRuns
        /\ continue_on_error => Len(results) = Len(commands)
        /\ ~continue_on_error =>
              /\ \A i \in 1..(Len(results) - 1) : results[i].success
              /\ Len(results) < Len(commands) => ~results[Len(results)].success

C21_Witness ==
    /\ b_pc = "returned"
    /\ ~continue_on_error
    /\ commands = <<"a", "b", "a">>
    /\ Len(results) = 2
    /\ results[1].success
    /\ ~results[2].success
    /\ results[2].command = "b"
    /\ Len(b_ran) = 2

-----------------------------------------------------------------------------
(* Properties of validate_email, checked under SpecEmail *)

\* where the first '@' of an address is (0 when it has none)
AtOf(email) ==
    IF \E i \in 1..Len(email) : email[i] = "@"
    THEN CHOOSE i \in 1..Len(email) :
            email[i] = "@" /\ \A j \in 1..(i - 1) : email[j] # "@"
    ELSE 0

\* the malformed kinds of the test: no '@' (the empty string too), nothing
\* before it, nothing after it, a dot right after it, two dots in a row before it
Malformed(email) ==
    LET at == AtOf(email)
    IN  \/ at = 0
        \/ at = 1
        \/ at = Len(email)
        \/ email[at + 1] = "."
        \/ \E i \in 1..(at - 2) : email[i] = "." /\ email[i + 1] = "."

\* 'user+tag@example.com' within the lengths followed
UserTag == <<"u", "+", "u", "@", "u", ".", "u", "u">>

\* C22: validate_email returns False for every malformed address of the test's
\* kinds (no '@', empty local part, empty domain, domain starting with a dot,
\* empty string, two consecutive dots in the local part) and True for a
\* well-formed address like 'user+tag@example.com'.
C22_ValidateEmail ==
    (u_op = "validate_email" /\ u_pc = "applied") =>
        /\ Malformed(u_in) => u_out.v = FALSE
        /\ u_in = UserTag => u_out.v = TRUE

-----------------------------------------------------------------------------
(* Properties of clean_data, checked under SpecClean *)

BothFlags == [remove_empty |-> TRUE, strip_strings |-> TRUE]

NoEmptyValue(data) ==
    \A i \in 1..Len(data) : \A key \in DOMAIN data[i] : ~IsEmptyValue(data[i][key])

NoEmptyRow(data) == \A i \in 1..Len(data) : DOMAIN data[i] # {}

\* C23: with remove_empty=True and strip_strings=True no dictionary of the
\* result carries None or '', no result dictionary is empty, and clean_data
\* applied to the result returns it unchanged.
C23_CleanData ==
    (u_op = "clean_data" /\ u_arg = BothFlags) =>
        /\ u_pc \in {"applied", "reapplied"} =>
              NoEmptyValue(u_out.v) /\ NoEmptyRow(u_out.v)
        /\ u_pc = "reapplied" => u_again = u_out.v

-----------------------------------------------------------------------------
(* Properties of run_DbCheck_sendToAPI_task, checked under SpecJob *)

\* C24: when the connection succeeds but no valid records are found, the
\* report for total 0 with empty lists is still sent: send_email_report
\* returns True, given a working SMTP server.
C24_ZeroRecordsReportSent ==
    (j_pc = "done" /\ "connect" \notin j_fails /\ records = <<>> /\ smtp_up) =>
        /\ j_results = NoResults
        /\ j_email = "True"

\* the response is an answer with status exactly 200
Is200(response) == response.exc = "None" /\ response.status = 200

\* the links of the posts, in order, whose response was (ok) or was not (~ok)
\* an answer with status 200
RECURSIVE PostedLinks(_, _)
PostedLinks(ps, ok) ==
    IF ps = <<>> THEN <<>>
    ELSE (IF Is200(Head(ps).response) = ok THEN <<Head(ps).link>> ELSE <<>>)
         \o PostedLinks(Tail(ps), ok)

LinksOf(result_records) ==
    [i \in 1..Len(result_records) |-> result_records[i].assessment_link]

\* C25: process_all_records sends each record once, in input order, and files
\* it in exactly one of successful (status exactly 200) or failed (any other
\* status, any exception), each list in input order; after it returns
\* len(successful) + len(failed) == total == len(records); a failed record
\* does not stop the loop.
C25_ProcessAllRecords ==
    /\ j_pc = "post" =>
          /\ j_i <= Len(records)
          /\ Len(posts) = j_i - 1
    /\ j_pc \in {"post", "report", "done"} =>
          /\ Len(posts) <= Len(records)
          /\ \A i \in 1..Len(posts) : posts[i].link = records[i]
          /\ LinksOf(j_results.successful) = PostedLinks(posts, TRUE)
          /\ LinksOf(j_results.failed) = PostedLinks(posts, FALSE)
          /\ j_results.total = Len(records)
    /\ (j_pc \in {"report", "done"} /\ "connect" \notin j_fails) =>
          /\ Len(posts) = Len(records)
          /\ Len(j_results.successful) + Len(j_results.failed) = j_results.total

C25_Witness ==
    /\ j_pc = "done"
    /\ records = <<"x", "y", "x">>
    /\ Len(posts) = 3
    /\ posts[1].response.status = 500
    /\ posts[2].response.exc = "Timeout"
    /\ posts[3].response.status = 200
    /\ LinksOf(j_results.successful) = <<"x">>
    /\ LinksOf(j_results.failed) = <<"x", "y">>
    /\ j_results.total = 3
    /\ j_email = "True"

====
